---- MODULE Spec2Model ----
(***************************************************************************)
(* express-graphql-persisted-queries: the persistedQueries middleware      *)
(* (option parsing, request body materialization, persisted query          *)
(* resolution, injection, error envelope) as a state machine.              *)
(*                                                                         *)
(* JavaScript values are records tagged by `t` (the typeof class, with     *)
(* null, promises and errors told apart).  An object carries its own       *)
(* entries `m` (a function whose DOMAIN is the set of own keys) and the    *)
(* entries it inherits, `proto`.                                           *)
(***************************************************************************)
EXTENDS Integers, Sequences, FiniteSets, TLC

\* ------------------------------------------------------------------------
\* Bounds of the model
\* ------------------------------------------------------------------------
NumReqs == 2          \* request slots of one middleware instance
MaxParams == 2        \* search parameters per request target

Reqs == 1..NumReqs

\* ------------------------------------------------------------------------
\* Program constants (constants.ts)
\* ------------------------------------------------------------------------
HTTP_STATUS_OK == 200
HTTP_STATUS_BAD_REQUEST == 400
HTTP_STATUS_PAYLOAD_TOO_LARGE == 413
HTTP_STATUS_UNSUPPORTED_MEDIA_TYPE == 415
HTTP_STATUS_INTERNAL_SERVER_ERROR == 500
UNIT_KIB == 1024
MAX_BUFFER_SIZE_KIB == 100
CONTENT_TYPE_JSON == "application/json"
CONTENT_TYPE_FORM_URL_ENCODED == "application/x-www-form-urlencoded"

\* ------------------------------------------------------------------------
\* JavaScript values
\* ------------------------------------------------------------------------
Undefined == [t |-> "undefined"]
Null == [t |-> "null"]
Str(s) == [t |-> "string", v |-> s]
Num(n) == [t |-> "number", v |-> n]      \* n: the number's decimal text
Bool(b) == [t |-> "boolean", v |-> b]

\* What every plain object inherits from Object.prototype (members that a
\* query id can collide with); none of them is a string.
ObjectProto ==
  [k \in {"toString", "constructor"} |-> [t |-> "function", f |-> <<>>]]

NoEntries == [k \in {} |-> Undefined]

Obj(m) == [t |-> "object", m |-> m, proto |-> ObjectProto]
ObjWithProto(m, p) == [t |-> "object", m |-> m, proto |-> p]

\* A callback: f maps each argument to what the call does with it.
Fn(f) == [t |-> "function", f |-> f]
Return(v) == [k |-> "return", val |-> v]
Throw(e) == [k |-> "throw", val |-> e]

\* A promise that has fulfilled with v / rejected with e by the time it is
\* awaited, or that never settles.
Resolved(v) == [t |-> "promise", st |-> "fulfilled", val |-> v]
Rejected(e) == [t |-> "promise", st |-> "rejected", val |-> e]
Forever == [t |-> "promise", st |-> "pending", val |-> Undefined]

\* An Error instance; status / statusCode 0 stand for "no such property".
Err(name, message, status, statusCode) ==
  [t |-> "error", name |-> name, message |-> message,
   status |-> status, statusCode |-> statusCode]
\* Object.assign(error, { extensions })
WithExtensions(error, extensions) ==
  [k \in DOMAIN error \cup {"extensions"} |-> IF k = "extensions" THEN extensions ELSE error[k]]
Error(message) == Err("Error", message, 0, 0)
TypeError(message) == Err("TypeError", message, 0, 0)

\* typeguards.ts
isObject(value) == value.t \in {"object", "promise", "error"}
isString(value) == value.t = "string"
isFunction(value) == value.t = "function"
nonNull(value) == value.t \notin {"undefined", "null"}

\* Boolean(value)
ToBoolean(value) ==
  CASE value.t \in {"undefined", "null"} -> FALSE
    [] value.t = "boolean" -> value.v = "true"
    [] value.t = "string" -> value.v # ""
    [] value.t = "number" -> value.v \notin {"0", "NaN"}
    [] OTHER -> TRUE

\* String(value), for the values that can be thrown here
String(value) ==
  CASE value.t = "string" -> value.v
    [] value.t = "undefined" -> "undefined"
    [] value.t = "null" -> "null"
    [] value.t = "boolean" -> value.v
    [] value.t = "error" -> value.name \o ": " \o value.message
    [] OTHER -> "[object Object]"

\* key in object
HasProperty(o, k) == k \in DOMAIN o.m \/ k \in DOMAIN o.proto
\* Object.prototype.hasOwnProperty.call(object, key)
hasOwnProperty(o, k) == k \in DOMAIN o.m
\* object[key]
Get(o, k) ==
  IF k \in DOMAIN o.m THEN o.m[k]
  ELSE IF k \in DOMAIN o.proto THEN o.proto[k]
  ELSE Undefined
\* object[key] = value
Put(o, k, value) ==
  [o EXCEPT !.m = [x \in DOMAIN o.m \cup {k} |-> IF x = k THEN value ELSE o.m[x]]]

\* assert.ts: the outcome of assert(condition, msg)
assert(condition, msg) ==
  IF condition THEN [ok |-> TRUE] ELSE [ok |-> FALSE, err |-> TypeError(msg)]

\* ------------------------------------------------------------------------
\* http-errors: httpError(status, arg) as the middleware calls it
\* ------------------------------------------------------------------------
KnownStatuses ==
  (100..103) \cup (200..208) \cup {226} \cup (300..308) \cup (400..418)
  \cup (421..426) \cup {428, 429, 431, 451} \cup (500..511)

httpError(status, arg) ==
  LET wanted == IF arg.t = "error"
                THEN IF arg.status # 0 THEN arg.status
                     ELSE IF arg.statusCode # 0 THEN arg.statusCode
                     ELSE status
                ELSE status
      final == IF wanted \notin KnownStatuses /\ (wanted < 400 \/ wanted >= 600)
               THEN HTTP_STATUS_INTERNAL_SERVER_ERROR
               ELSE wanted
  IN IF arg.t = "error"
     THEN [arg EXCEPT !.status = final, !.statusCode = final]
     ELSE Err("HttpError", arg.v, final, final)

\* ------------------------------------------------------------------------
\* await: what awaiting a value yields
\* ------------------------------------------------------------------------
Settled(value) == ~(value.t = "promise" /\ value.st = "pending")
Await(value) ==
  IF value.t = "promise"
  THEN [ok |-> value.st = "fulfilled", val |-> value.val]
  ELSE [ok |-> TRUE, val |-> value]

VARIABLES
  options,        \* the argument persistedQueries was called with
  main,           \* "start", "constructed" or "threw": persistedQueries itself
  thrown,         \* what persistedQueries threw synchronously, or Undefined
  parseCalls,     \* how many times parseOptions was called
  optStage,       \* parseOptions: "idle", "awaitOptions", "awaitQueryMap", "done"
  optObject,      \* parseOptions: its local `options` once awaited
  parsedOptions,  \* the memoized promise: [st, val]
  consoleErrors,  \* what was passed to console.error, in order
  pc,             \* per request: where persistedQueriesMiddleware is
  req,            \* per request: the request as received (url, headers, stream)
  body,           \* per request: req.body
  res,            \* per request: the response, [sent |-> FALSE] until written
  nextCalls,      \* per request: how many times next() was invoked
  lookups,        \* per request: the query map consultations, in order
  awaited,        \* per request: what `await queryMap(queryId)` is waiting for
  stream,         \* per request: the request stream (bytes read, transform, buffered)
  next,           \* per request: what calling the continuation next() does
  trip            \* a body on its way from a client's mapping to req.body

cfgVars == <<options, main, thrown, parseCalls, optStage, optObject, parsedOptions, consoleErrors>>
reqVars == <<pc, req, body, res, nextCalls, lookups, awaited, stream, next>>
vars == <<options, main, thrown, parseCalls, optStage, optObject, parsedOptions, consoleErrors,
          pc, req, body, res, nextCalls, lookups, awaited, stream, next, trip>>

\* ------------------------------------------------------------------------
\* persistedQueries(options) and parseOptions
\* ------------------------------------------------------------------------
MSG_NO_OPTIONS == "You must provide options to the persistedQueries middleware."
MSG_OPTIONS_NOT_OBJECT ==
  "The options passed to persistedQueries must be an object or a promise that resolves with an object."
MSG_QUERY_MAP_SHAPE ==
  "options.queryMap must be an object, a function, or a promise that resolves with an object or function."

Pending == [st |-> "pending", val |-> Undefined]

\* parsedOptions settles with a failure; parsedOptions.catch(console.error)
\* then reports it.
RejectOptions(e) ==
  /\ parsedOptions' = [st |-> "rejected", val |-> e]
  /\ consoleErrors' = Append(consoleErrors, e)
  /\ optStage' = "done"

\* PersistedQueries, were missing options left to parseOptions to reject
PersistedQueries_NoThrow ==
  /\ main = "start"
  /\ main' = "constructed"
  /\ parseCalls' = parseCalls + 1
  /\ IF assert(nonNull(options), MSG_NO_OPTIONS).ok
     THEN optStage' = "awaitOptions" /\ UNCHANGED <<parsedOptions, consoleErrors>>
     ELSE RejectOptions(assert(nonNull(options), MSG_NO_OPTIONS).err)
  /\ UNCHANGED <<options, thrown, optObject>>
  /\ UNCHANGED <<reqVars, trip>>

\* persistedQueries: the assertion, then the eager call of parseOptions, which
\* runs up to its first await.
PersistedQueries ==
  /\ main = "start"
  /\ LET a == assert(nonNull(options), MSG_NO_OPTIONS)
     IN IF a.ok
        THEN /\ main' = "constructed"
             /\ parseCalls' = parseCalls + 1
             /\ optStage' = "awaitOptions"
             /\ UNCHANGED thrown
        ELSE /\ main' = "threw"
             /\ thrown' = a.err
             /\ UNCHANGED <<parseCalls, optStage>>
  /\ UNCHANGED <<options, optObject, parsedOptions, consoleErrors>>
  /\ UNCHANGED <<reqVars, trip>>

\* parseOptions, from `await promiseOrOptions` to `await options.queryMap`
ParseOptionsAwaitOptions ==
  /\ optStage = "awaitOptions"
  /\ Settled(options)
  /\ LET o == Await(options)
         a == assert(isObject(o.val), MSG_OPTIONS_NOT_OBJECT)
     IN IF ~o.ok THEN RejectOptions(o.val) /\ UNCHANGED optObject
        ELSE IF ~a.ok THEN RejectOptions(a.err) /\ UNCHANGED optObject
        ELSE /\ optObject' = o.val
             /\ optStage' = "awaitQueryMap"
             /\ UNCHANGED <<parsedOptions, consoleErrors>>
  /\ UNCHANGED <<options, main, thrown, parseCalls>>
  /\ UNCHANGED <<reqVars, trip>>

DEFAULT_QUERY_ID_KEY == "queryId"

\* parseOptions, from the resumption after `await options.queryMap` to its return
ParseOptionsAwaitQueryMap ==
  /\ optStage = "awaitQueryMap"
  /\ Settled(Get(optObject, "queryMap"))
  /\ LET q == Await(Get(optObject, "queryMap"))
         a == assert(isObject(q.val) \/ isFunction(q.val), MSG_QUERY_MAP_SHAPE)
         key == Get(optObject, "queryIdKey")
     IN IF ~q.ok THEN RejectOptions(q.val)
        ELSE IF ~a.ok THEN RejectOptions(a.err)
        ELSE /\ parsedOptions' =
                  [st |-> "fulfilled",
                   val |-> [queryIdKey |-> IF isString(key) THEN key.v ELSE DEFAULT_QUERY_ID_KEY,
                            queryMap |-> q.val,
                            strict |-> ToBoolean(Get(optObject, "strict"))]]
             /\ optStage' = "done"
             /\ UNCHANGED consoleErrors
  /\ UNCHANGED <<options, main, thrown, parseCalls, optObject>>
  /\ UNCHANGED <<reqVars, trip>>

\* ------------------------------------------------------------------------
\* Error envelope: the catch block of persistedQueriesMiddleware and sendJson
\* ------------------------------------------------------------------------
NoResponse == [sent |-> FALSE]

\* sendJson(res, payload) on a response whose statusCode was set before
sendJson(statusCode, payload) ==
  [sent |-> TRUE,
   statusCode |-> statusCode,
   contentType |-> CONTENT_TYPE_JSON \o "; charset=utf-8",
   payload |-> payload]

\* formatError(new GraphQLError(error.message, ..., error)): the GraphQLError
\* takes over the extensions of its original error when they are an object,
\* and formatError passes them on; locations and path are undefined and
\* JSON.stringify drops them, as it drops `data: undefined`.
formatError(error) ==
  IF "extensions" \in DOMAIN error /\ error.extensions.t = "object"
  THEN [message |-> error.message, extensions |-> error.extensions]
  ELSE [message |-> error.message]

\* catch (unknownError): the response the middleware writes
ErrorResponse(unknownError) ==
  LET error == httpError(HTTP_STATUS_INTERNAL_SERVER_ERROR,
                         IF unknownError.t = "error" THEN unknownError
                         ELSE Str(String(unknownError)))
  IN sendJson(error.statusCode, [errors |-> <<formatError(error)>>])

\* catch (unknownError) of bodyParserMiddleware: the response it writes
BodyParserErrorResponse(unknownError) ==
  LET error == httpError(HTTP_STATUS_INTERNAL_SERVER_ERROR,
                         IF unknownError.t = "error" THEN unknownError
                         ELSE Str(String(unknownError)))
  IN sendJson(error.statusCode, [errors |-> <<[message |-> error.message]>>])

\* The middleware leaves its try block through catch.
Fail(r, unknownError) ==
  /\ res' = [res EXCEPT ![r] = ErrorResponse(unknownError)]
  /\ pc' = [pc EXCEPT ![r] = "failed"]

\* ------------------------------------------------------------------------
\* parseRequestBodyIfNecessary
\* ------------------------------------------------------------------------
MSG_NOT_JSON_OBJECT == "Request body is not a valid JSON object."
MSG_TOO_LARGE == "Request body too large."

ToLowerCase(s) ==
  CASE s = "UTF-8" -> "utf-8"
    [] s = "UTF8" -> "utf8"
    [] s = "Utf16LE" -> "utf16le"
    [] s = "GZIP" -> "gzip"
    [] s = "BR" -> "br"
    [] s = "Latin1" -> "latin1"
    [] OTHER -> s
ToUpperCase(s) ==
  CASE s \in {"utf-8", "UTF-8"} -> "UTF-8"
    [] s \in {"utf8", "UTF8"} -> "UTF8"
    [] s \in {"utf16le", "Utf16LE"} -> "UTF16LE"
    [] s = "utf-18" -> "UTF-18"
    [] s = "latin1" -> "LATIN1"
    [] OTHER -> s

\* isCharsetSupported, were latin1 decoded as well
isCharsetSupported_Latin1(charset) ==
  charset = "utf8" \/ charset = "utf-8" \/ charset = "utf16le" \/ charset = "latin1"

isCharsetSupported(charset) == charset = "utf8" \/ charset = "utf-8" \/ charset = "utf16le"

\* isEncodingSupported, were there a transform for brotli as well
isEncodingSupported_Brotli(encoding) == encoding \in {"deflate", "gzip", "identity", "br"}

\* getStreamFromRequest: the failure for an encoding without a transform
isEncodingSupported(encoding) == encoding \in {"deflate", "gzip", "identity"}

\* A text is given by what it holds: a JSON object ("object": `{...}`, "padded":
\* the same behind spaces, tabs and line ends), an object cut short
\* ("truncated": `{"queryId":`), an object that is no JSON ("malformed":
\* `{queryId}`), another JSON value ("array", "scalar"), a form
\* (`queryId=greet`), or nothing ("empty").
\* /^[ \t\n\r]*{/.test(json)
StartsWithBrace(text) == text.k \in {"object", "padded", "truncated", "malformed"}
\* JSON.parse(json)
JSONParse(text) ==
  CASE text.k \in {"object", "padded"} -> [ok |-> TRUE, val |-> Obj(text.m)]
    [] text.k = "array" -> [ok |-> TRUE, val |-> Str("<array>")]
    [] text.k = "scalar" -> [ok |-> TRUE, val |-> Num("42")]
    [] text.k \in {"truncated", "empty"} ->
         [ok |-> FALSE, val |-> Err("SyntaxError", "Unexpected end of JSON input", 0, 0)]
    [] OTHER ->
         [ok |-> FALSE, val |-> Err("SyntaxError", "Unexpected token q in JSON at position 1", 0, 0)]

\* parseJsonObject(json)
parseJsonObject(text) ==
  IF ~StartsWithBrace(text)
  THEN [ok |-> FALSE, val |-> Error("Not a JSON object.")]
  ELSE JSONParse(text)

\* querystring.parse(text)
querystringParse(text) ==
  IF text.k = "form" THEN ObjWithProto(text.m, NoEntries)
  ELSE IF text.k = "empty" THEN ObjWithProto(NoEntries, NoEntries)
  ELSE ObjWithProto([x \in {"<" \o text.k \o ">"} |-> Str("")], NoEntries)

\* The bytes / characters ("bytes" / "chars") of the first n chunks
RECURSIVE Total(_, _, _)
Total(chunks, n, unit) ==
  IF n = 0 THEN 0 ELSE Total(chunks, n - 1, unit) + chunks[n][unit]
ByteLength(payload) == Total(payload.chunks, Len(payload.chunks), "bytes")

\* get-stream: each chunk is buffered and counted in `unit` (the length of a
\* string chunk when an encoding is given, of a Buffer chunk otherwise); the
\* promise rejects with MaxBufferError at the first chunk that takes the count
\* over maxBuffer, and resolves at the end of the stream otherwise.  `taken`
\* is the number of chunks buffered when it settles.
getStream(chunks, unit, maxBuffer) ==
  LET over == {i \in 1..Len(chunks) : Total(chunks, i, unit) > maxBuffer}
  IN [ok |-> over = {},
      taken |-> IF over = {} THEN Len(chunks)
                ELSE CHOOSE i \in over : \A j \in over : i <= j]

\* The request stream: the bytes read from it so far, the decompression
\* transform it is piped into ("" for none), the decoded bytes buffered.
Untouched == [read |-> 0, transform |-> "", buffered |-> 0]
\* req.pipe(createInflate()) / req.pipe(createGunzip()) / req
Transform(encoding) ==
  CASE encoding = "deflate" -> "Inflate"
    [] encoding = "gzip" -> "Gunzip"
    [] OTHER -> ""

\* readRawBody, were the stream read before the charset and the
\* Content-Encoding are checked
readRawBody_ReadsFirst(q) ==
  LET charset == IF q.charset = "" THEN "utf-8" ELSE ToLowerCase(q.charset)
      encoding == IF q.contentEncoding = "" THEN "identity" ELSE ToLowerCase(q.contentEncoding)
      maxBuffer == MAX_BUFFER_SIZE_KIB * UNIT_KIB
      rawBody == getStream(q.payload.chunks, "chars", maxBuffer)
      piped == [read |-> Total(q.payload.chunks, rawBody.taken, "bytes"),
                transform |-> Transform(encoding),
                buffered |-> Total(q.payload.chunks, rawBody.taken, "bytes")]
  IN IF ~isCharsetSupported(charset)
     THEN [ok |-> FALSE,
           val |-> httpError(HTTP_STATUS_UNSUPPORTED_MEDIA_TYPE,
                             Str("Unsupported charset \"" \o ToUpperCase(charset) \o "\".")),
           stream |-> piped]
     ELSE IF ~isEncodingSupported(encoding)
     THEN [ok |-> FALSE,
           val |-> httpError(HTTP_STATUS_UNSUPPORTED_MEDIA_TYPE,
                             Str("Unsupported Content-Encoding: \"" \o encoding \o "\".")),
           stream |-> piped]
     ELSE IF q.payload.streamError # ""
     THEN [ok |-> FALSE,
           val |-> httpError(HTTP_STATUS_BAD_REQUEST,
                             Str("Invalid request body: " \o q.payload.streamError \o ".")),
           stream |-> [piped EXCEPT !.buffered = 0]]
     ELSE IF ~rawBody.ok
     THEN [ok |-> FALSE, val |-> httpError(HTTP_STATUS_PAYLOAD_TOO_LARGE, Str(MSG_TOO_LARGE)),
           stream |-> piped]
     ELSE [ok |-> TRUE, val |-> q.payload.text, stream |-> piped]

\* readRawBody(req, contentTypeInfo): the text, or the failure it throws, and
\* what became of the request stream (the payload arrives as one chunk).
readRawBody(q) ==
  LET charset == IF q.charset = "" THEN "utf-8" ELSE ToLowerCase(q.charset)
      encoding == IF q.contentEncoding = "" THEN "identity" ELSE ToLowerCase(q.contentEncoding)
      maxBuffer == MAX_BUFFER_SIZE_KIB * UNIT_KIB
      rawBody == getStream(q.payload.chunks, "chars", maxBuffer)
      piped == [read |-> Total(q.payload.chunks, rawBody.taken, "bytes"),
                transform |-> Transform(encoding),
                buffered |-> Total(q.payload.chunks, rawBody.taken, "bytes")]
  IN IF ~isCharsetSupported(charset)
     THEN [ok |-> FALSE,
           val |-> httpError(HTTP_STATUS_UNSUPPORTED_MEDIA_TYPE,
                             Str("Unsupported charset \"" \o ToUpperCase(charset) \o "\".")),
           stream |-> Untouched]
     ELSE IF ~isEncodingSupported(encoding)
     THEN [ok |-> FALSE,
           val |-> httpError(HTTP_STATUS_UNSUPPORTED_MEDIA_TYPE,
                             Str("Unsupported Content-Encoding: \"" \o encoding \o "\".")),
           stream |-> Untouched]
     ELSE IF q.payload.streamError # ""
     THEN [ok |-> FALSE,
           val |-> httpError(HTTP_STATUS_BAD_REQUEST,
                             Str("Invalid request body: " \o q.payload.streamError \o ".")),
           stream |-> [piped EXCEPT !.buffered = 0]]
     ELSE IF ~rawBody.ok
     THEN [ok |-> FALSE, val |-> httpError(HTTP_STATUS_PAYLOAD_TOO_LARGE, Str(MSG_TOO_LARGE)),
           stream |-> piped]
     ELSE [ok |-> TRUE, val |-> q.payload.text, stream |-> piped]

\* parseRequestBodyIfNecessary, were a body of any other type read as a form
parseRequestBodyIfNecessary_AnyType(q, b) ==
  IF nonNull(b) THEN [ok |-> TRUE, val |-> b, stream |-> Untouched]
  ELSE IF q.contentType = "" THEN [ok |-> TRUE, val |-> b, stream |-> Untouched]
  ELSE IF q.contentType = "invalid"
  THEN [ok |-> FALSE, val |-> TypeError("invalid media type"), stream |-> Untouched]
  ELSE IF q.contentType = CONTENT_TYPE_JSON
  THEN LET raw == readRawBody(q)
       IN IF ~raw.ok THEN raw
          ELSE IF parseJsonObject(raw.val).ok
          THEN [ok |-> TRUE, val |-> parseJsonObject(raw.val).val, stream |-> raw.stream]
          ELSE [ok |-> FALSE,
                val |-> httpError(HTTP_STATUS_BAD_REQUEST, Str(MSG_NOT_JSON_OBJECT)),
                stream |-> raw.stream]
  ELSE LET raw == readRawBody(q)
       IN IF ~raw.ok THEN raw
          ELSE [ok |-> TRUE, val |-> querystringParse(raw.val), stream |-> raw.stream]

\* parseRequestBodyIfNecessary, were a body set upstream parsed again
parseRequestBodyIfNecessary_Again(q, b) ==
  IF q.contentType = "" THEN [ok |-> TRUE, val |-> b, stream |-> Untouched]
  ELSE IF q.contentType = "invalid"
  THEN [ok |-> FALSE, val |-> TypeError("invalid media type"), stream |-> Untouched]
  ELSE IF q.contentType = CONTENT_TYPE_JSON
  THEN LET raw == readRawBody(q)
       IN IF ~raw.ok THEN raw
          ELSE IF parseJsonObject(raw.val).ok
          THEN [ok |-> TRUE, val |-> parseJsonObject(raw.val).val, stream |-> raw.stream]
          ELSE [ok |-> FALSE,
                val |-> httpError(HTTP_STATUS_BAD_REQUEST, Str(MSG_NOT_JSON_OBJECT)),
                stream |-> raw.stream]
  ELSE IF q.contentType = CONTENT_TYPE_FORM_URL_ENCODED
  THEN LET raw == readRawBody(q)
       IN IF ~raw.ok THEN raw
          ELSE [ok |-> TRUE, val |-> querystringParse(raw.val), stream |-> raw.stream]
  ELSE [ok |-> TRUE, val |-> b, stream |-> Untouched]

\* parseRequestBodyIfNecessary, were the failure of the JSON parser passed on
parseRequestBodyIfNecessary_LeaksParser(q, b) ==
  IF nonNull(b) THEN [ok |-> TRUE, val |-> b, stream |-> Untouched]
  ELSE IF q.contentType = "" THEN [ok |-> TRUE, val |-> b, stream |-> Untouched]
  ELSE IF q.contentType = "invalid"
  THEN [ok |-> FALSE, val |-> TypeError("invalid media type"), stream |-> Untouched]
  ELSE IF q.contentType = CONTENT_TYPE_JSON
  THEN LET raw == readRawBody(q)
       IN IF ~raw.ok THEN raw
          ELSE IF parseJsonObject(raw.val).ok
          THEN [ok |-> TRUE, val |-> parseJsonObject(raw.val).val, stream |-> raw.stream]
          ELSE [ok |-> FALSE,
                val |-> httpError(HTTP_STATUS_BAD_REQUEST,
                                  Str(parseJsonObject(raw.val).val.message)),
                stream |-> raw.stream]
  ELSE IF q.contentType = CONTENT_TYPE_FORM_URL_ENCODED
  THEN LET raw == readRawBody(q)
       IN IF ~raw.ok THEN raw
          ELSE [ok |-> TRUE, val |-> querystringParse(raw.val), stream |-> raw.stream]
  ELSE [ok |-> TRUE, val |-> b, stream |-> Untouched]

\* parseRequestBodyIfNecessary(req): the new req.body, or the failure, and
\* what became of the request stream
parseRequestBodyIfNecessary(q, b) ==
  IF nonNull(b) THEN [ok |-> TRUE, val |-> b, stream |-> Untouched]
  ELSE IF q.contentType = "" THEN [ok |-> TRUE, val |-> b, stream |-> Untouched]
  ELSE IF q.contentType = "invalid"
  THEN [ok |-> FALSE, val |-> TypeError("invalid media type"), stream |-> Untouched]
  ELSE IF q.contentType = CONTENT_TYPE_JSON
  THEN LET raw == readRawBody(q)
       IN IF ~raw.ok THEN raw
          ELSE IF parseJsonObject(raw.val).ok
          THEN [ok |-> TRUE, val |-> parseJsonObject(raw.val).val, stream |-> raw.stream]
          ELSE [ok |-> FALSE,
                val |-> httpError(HTTP_STATUS_BAD_REQUEST, Str(MSG_NOT_JSON_OBJECT)),
                stream |-> raw.stream]
  ELSE IF q.contentType = CONTENT_TYPE_FORM_URL_ENCODED
  THEN LET raw == readRawBody(q)
       IN IF ~raw.ok THEN raw
          ELSE [ok |-> TRUE, val |-> querystringParse(raw.val), stream |-> raw.stream]
  ELSE [ok |-> TRUE, val |-> b, stream |-> Untouched]

\* ------------------------------------------------------------------------
\* bodyParser: the body parser the other build of persistedQueries delegates to
\* ------------------------------------------------------------------------
\* parseOptions of bodyParser: bodyParser() is called without options
DEFAULT_MAX_SIZE == 100 * UNIT_KIB

\* readRawBody({ contentTypeInfo, maxSize, req }): getStream.buffer counts the
\* bytes of the Buffer chunks; bodyBuffer.toString(charset) gives the text.
bodyParserReadRawBody(q, maxSize) ==
  LET charset == IF q.charset = "" THEN "utf-8" ELSE ToLowerCase(q.charset)
      encoding == IF q.contentEncoding = "" THEN "identity" ELSE ToLowerCase(q.contentEncoding)
      bodyBuffer == getStream(q.payload.chunks, "bytes", maxSize)
      piped == [read |-> Total(q.payload.chunks, bodyBuffer.taken, "bytes"),
                transform |-> Transform(encoding),
                buffered |-> Total(q.payload.chunks, bodyBuffer.taken, "bytes")]
  IN IF ~isCharsetSupported(charset)
     THEN [ok |-> FALSE,
           val |-> httpError(HTTP_STATUS_UNSUPPORTED_MEDIA_TYPE,
                             Str("Unsupported charset \"" \o ToUpperCase(charset) \o "\".")),
           stream |-> Untouched]
     ELSE IF ~isEncodingSupported(encoding)
     THEN [ok |-> FALSE,
           val |-> httpError(HTTP_STATUS_UNSUPPORTED_MEDIA_TYPE,
                             Str("Unsupported Content-Encoding: \"" \o encoding \o "\".")),
           stream |-> Untouched]
     ELSE IF q.payload.streamError # ""
     THEN [ok |-> FALSE,
           val |-> httpError(HTTP_STATUS_BAD_REQUEST,
                             Str("Invalid request body: " \o q.payload.streamError \o ".")),
           stream |-> [piped EXCEPT !.buffered = 0]]
     ELSE IF ~bodyBuffer.ok
     THEN [ok |-> FALSE, val |-> httpError(HTTP_STATUS_PAYLOAD_TOO_LARGE, Str(MSG_TOO_LARGE)),
           stream |-> piped]
     ELSE [ok |-> TRUE, val |-> q.payload.text, stream |-> piped]

\* bodyParserMiddleware(req, res, next), to its call of next() or to its
\* catch: the new req.body, or the failure, and what became of the stream
bodyParserMiddleware(q, b, maxSize) ==
  IF nonNull(b) \/ q.contentType = "" THEN [ok |-> TRUE, val |-> b, stream |-> Untouched]
  ELSE IF q.contentType = "invalid"
  THEN [ok |-> FALSE, val |-> TypeError("invalid media type"), stream |-> Untouched]
  ELSE IF q.contentType = CONTENT_TYPE_JSON
  THEN LET raw == bodyParserReadRawBody(q, maxSize)
       IN IF ~raw.ok THEN raw
          ELSE IF parseJsonObject(raw.val).ok
          THEN [ok |-> TRUE, val |-> parseJsonObject(raw.val).val, stream |-> raw.stream]
          ELSE [ok |-> FALSE,
                val |-> httpError(HTTP_STATUS_BAD_REQUEST, Str(MSG_NOT_JSON_OBJECT)),
                stream |-> raw.stream]
  ELSE IF q.contentType = CONTENT_TYPE_FORM_URL_ENCODED
  THEN LET raw == bodyParserReadRawBody(q, maxSize)
       IN IF ~raw.ok THEN raw
          ELSE [ok |-> TRUE, val |-> querystringParse(raw.val), stream |-> raw.stream]
  ELSE [ok |-> TRUE, val |-> b, stream |-> Untouched]

\* ------------------------------------------------------------------------
\* The conversions between a mapping and the bytes on the wire
\* ------------------------------------------------------------------------
\* A string is the sequence of its UTF-16 code units, a Buffer the sequence of
\* its bytes.  A mapping is the sequence of its <<key, value>> entries, keys
\* and values strings.
NoTrip == [stage |-> "none"]

RECURSIVE Concat(_)
Concat(seqs) == IF seqs = <<>> THEN <<>> ELSE Head(seqs) \o Concat(Tail(seqs))

QUOTE == 34
BACKSLASH == 92
REPLACEMENT == 65533

\* JSON.stringify of a string: quotes and backslashes escaped
Quoted(str) ==
  <<QUOTE>>
  \o Concat([i \in 1..Len(str) |->
               IF str[i] \in {QUOTE, BACKSLASH} THEN <<BACKSLASH, str[i]>> ELSE <<str[i]>>])
  \o <<QUOTE>>
\* JSON.stringify(mapping): {"key":"value",...}
JSONStringify(mapping) ==
  <<123>>
  \o Concat([i \in 1..Len(mapping) |->
               (IF i = 1 THEN <<>> ELSE <<44>>)
               \o Quoted(mapping[i][1]) \o <<58>> \o Quoted(mapping[i][2])])
  \o <<125>>

IsHigh(u) == u >= 55296 /\ u <= 56319
IsLow(u) == u >= 56320 /\ u <= 57343
\* The UTF-8 bytes of a code point
Utf8Bytes(cp) ==
  IF cp < 128 THEN <<cp>>
  ELSE IF cp < 2048 THEN <<192 + cp \div 64, 128 + (cp % 64)>>
  ELSE IF cp < 65536 THEN <<224 + cp \div 4096, 128 + ((cp \div 64) % 64), 128 + (cp % 64)>>
  ELSE <<240 + cp \div 262144, 128 + ((cp \div 4096) % 64), 128 + ((cp \div 64) % 64),
         128 + (cp % 64)>>
\* Buffer.from(str, 'utf8'): a surrogate pair is one code point, a lone
\* surrogate becomes U+FFFD
RECURSIVE Utf8Encode(_)
Utf8Encode(str) ==
  IF str = <<>> THEN <<>>
  ELSE IF IsHigh(str[1]) /\ Len(str) >= 2 /\ IsLow(str[2])
  THEN Utf8Bytes(65536 + (str[1] - 55296) * 1024 + (str[2] - 56320))
       \o Utf8Encode(SubSeq(str, 3, Len(str)))
  ELSE IF IsHigh(str[1]) \/ IsLow(str[1])
  THEN Utf8Bytes(REPLACEMENT) \o Utf8Encode(Tail(str))
  ELSE Utf8Bytes(str[1]) \o Utf8Encode(Tail(str))
\* Buffer.from(str, 'utf16le'): two bytes a code unit, the low one first
Utf16leEncode(str) == Concat([i \in 1..Len(str) |-> <<str[i] % 256, str[i] \div 256>>])
\* Buffer.from(str, charset)
EncodeText(charset, str) ==
  IF charset = "utf16le" THEN Utf16leEncode(str) ELSE Utf8Encode(str)

\* The code units of a code point
Units(cp) ==
  IF cp < 65536 THEN <<cp>>
  ELSE <<55296 + (cp - 65536) \div 1024, 56320 + ((cp - 65536) % 1024)>>
IsCont(bytes, i) == i <= Len(bytes) /\ bytes[i] >= 128 /\ bytes[i] < 192
\* The UTF-8 decoder: a well-formed sequence gives its code point, any other
\* byte gives U+FFFD
RECURSIVE Utf8Decode(_)
Utf8Decode(bytes) ==
  IF bytes = <<>> THEN <<>>
  ELSE LET b == bytes[1]
           rest(n) == Utf8Decode(SubSeq(bytes, n + 1, Len(bytes)))
       IN IF b < 128 THEN <<b>> \o rest(1)
          ELSE IF b >= 194 /\ b < 224 /\ IsCont(bytes, 2)
          THEN Units((b - 192) * 64 + (bytes[2] - 128)) \o rest(2)
          ELSE IF b >= 224 /\ b < 240 /\ IsCont(bytes, 2) /\ IsCont(bytes, 3)
                  /\ (b - 224) * 4096 + (bytes[2] - 128) * 64 >= 2048
          THEN Units((b - 224) * 4096 + (bytes[2] - 128) * 64 + (bytes[3] - 128)) \o rest(3)
          ELSE IF b >= 240 /\ b < 245 /\ IsCont(bytes, 2) /\ IsCont(bytes, 3) /\ IsCont(bytes, 4)
                  /\ (b - 240) * 262144 + (bytes[2] - 128) * 4096 >= 65536
          THEN Units((b - 240) * 262144 + (bytes[2] - 128) * 4096 + (bytes[3] - 128) * 64
                     + (bytes[4] - 128)) \o rest(4)
          ELSE <<REPLACEMENT>> \o rest(1)
\* The UTF-16LE decoder: a code unit from every two bytes, an odd last byte
\* dropped
Utf16leDecode(bytes) ==
  [i \in 1..(Len(bytes) \div 2) |-> bytes[2 * i - 1] + 256 * bytes[2 * i]]
\* DecodeText, were every body decoded as UTF-8
DecodeText_Utf8Only(charset, bytes) == Utf8Decode(bytes)
\* getStream(stream, { encoding: charset }) / bodyBuffer.toString(charset)
DecodeText(charset, bytes) ==
  IF charset = "utf16le" THEN Utf16leDecode(bytes) ELSE Utf8Decode(bytes)

\* A number as n bytes, the low one first / the high one first
RECURSIVE LE(_, _)
LE(value, n) == IF n = 0 THEN <<>> ELSE <<value % 256>> \o LE(value \div 256, n - 1)
RECURSIVE BE(_, _)
BE(value, n) == IF n = 0 THEN <<>> ELSE BE(value \div 256, n - 1) \o <<value % 256>>
RECURSIVE FromLE(_)
FromLE(bytes) == IF bytes = <<>> THEN 0 ELSE bytes[1] + 256 * FromLE(Tail(bytes))
RECURSIVE Sum(_)
Sum(bytes) == IF bytes = <<>> THEN 0 ELSE bytes[1] + Sum(Tail(bytes))
\* Adler-32, the check value of the zlib format, as its four bytes
RECURSIVE AdlerB(_, _)
AdlerB(bytes, n) ==
  IF n = 0 THEN 0 ELSE (AdlerB(bytes, n - 1) + 1 + Sum(SubSeq(bytes, 1, n))) % 65521
Adler32(bytes) == BE(AdlerB(bytes, Len(bytes)), 2) \o BE((1 + Sum(bytes)) % 65521, 2)
\* The check value of the gzip format, as its four bytes: CRC-32 in zlib, here
\* the sum of the bytes; both ends compute the same function of the bytes.
Crc32(bytes) == LE(Sum(bytes), 4)

\* A deflate stream of one stored block: BFINAL and BTYPE = 00, LEN, its
\* complement, the bytes
Stored(bytes) == <<1>> \o LE(Len(bytes), 2) \o LE(65535 - Len(bytes), 2) \o bytes
\* deflateSync(bytes): the zlib format
Deflate(bytes) == <<120, 1>> \o Stored(bytes) \o Adler32(bytes)
\* gzipSync(bytes): the gzip format
Gzip(bytes) ==
  <<31, 139, 8, 0, 0, 0, 0, 0, 0, 255>> \o Stored(bytes)
  \o Crc32(bytes) \o LE(Len(bytes), 4)
\* What the client's library does for a Content-Encoding
Compress(encoding, bytes) ==
  CASE encoding = "gzip" -> Gzip(bytes)
    [] encoding = "deflate" -> Deflate(bytes)
    [] OTHER -> bytes

\* The stored block at the head of a deflate stream: its bytes and what
\* follows it, or the failure
Unstore(bytes) ==
  IF Len(bytes) < 5 THEN [ok |-> FALSE, val |-> "unexpected end of file"]
  ELSE IF bytes[1] # 1 THEN [ok |-> FALSE, val |-> "invalid block type"]
  ELSE LET len == FromLE(SubSeq(bytes, 2, 3))
       IN IF FromLE(SubSeq(bytes, 4, 5)) # 65535 - len
          THEN [ok |-> FALSE, val |-> "invalid stored block lengths"]
          ELSE IF Len(bytes) < 5 + len THEN [ok |-> FALSE, val |-> "unexpected end of file"]
          ELSE [ok |-> TRUE, val |-> SubSeq(bytes, 6, 5 + len),
                rest |-> SubSeq(bytes, 6 + len, Len(bytes))]
\* createInflate()
Inflate(bytes) ==
  IF Len(bytes) < 2 THEN [ok |-> FALSE, val |-> "unexpected end of file"]
  ELSE IF bytes[1] % 16 # 8 \/ (bytes[1] * 256 + bytes[2]) % 31 # 0
  THEN [ok |-> FALSE, val |-> "incorrect header check"]
  ELSE LET block == Unstore(SubSeq(bytes, 3, Len(bytes)))
       IN IF ~block.ok THEN block
          ELSE IF Len(block.rest) < 4 THEN [ok |-> FALSE, val |-> "unexpected end of file"]
          ELSE IF SubSeq(block.rest, 1, 4) # Adler32(block.val)
          THEN [ok |-> FALSE, val |-> "incorrect data check"]
          ELSE [ok |-> TRUE, val |-> block.val]
\* createGunzip()
Gunzip(bytes) ==
  IF Len(bytes) < 10 THEN [ok |-> FALSE, val |-> "unexpected end of file"]
  ELSE IF bytes[1] # 31 \/ bytes[2] # 139 THEN [ok |-> FALSE, val |-> "incorrect header check"]
  ELSE IF bytes[3] # 8 THEN [ok |-> FALSE, val |-> "unknown compression method"]
  ELSE LET block == Unstore(SubSeq(bytes, 11, Len(bytes)))
       IN IF ~block.ok THEN block
          ELSE IF Len(block.rest) < 8 THEN [ok |-> FALSE, val |-> "unexpected end of file"]
          ELSE IF SubSeq(block.rest, 1, 4) # Crc32(block.val)
          THEN [ok |-> FALSE, val |-> "incorrect data check"]
          ELSE IF SubSeq(block.rest, 5, 8) # LE(Len(block.val), 4)
          THEN [ok |-> FALSE, val |-> "incorrect length check"]
          ELSE [ok |-> TRUE, val |-> block.val]
\* The stream getDecompressedStream returns, read to its end
Decompress(transform, bytes) ==
  CASE transform = "Gunzip" -> Gunzip(bytes)
    [] transform = "Inflate" -> Inflate(bytes)
    [] OTHER -> [ok |-> TRUE, val |-> bytes]

\* White space of JSON: space, tab, line feed, carriage return
IsWs(u) == u \in {32, 9, 10, 13}
RECURSIVE SkipWs(_, _)
SkipWs(str, i) == IF i <= Len(str) /\ IsWs(str[i]) THEN SkipWs(str, i + 1) ELSE i
\* A JSON string whose opening quote is before position i: its value and the
\* position behind its closing quote
RECURSIVE ParseString(_, _, _)
ParseString(str, i, acc) ==
  IF i > Len(str) THEN [ok |-> FALSE]
  ELSE IF str[i] = QUOTE THEN [ok |-> TRUE, val |-> acc, next |-> i + 1]
  ELSE IF str[i] = BACKSLASH
  THEN IF i + 1 <= Len(str) /\ str[i + 1] \in {QUOTE, BACKSLASH, 47}
       THEN ParseString(str, i + 2, Append(acc, str[i + 1]))
       ELSE [ok |-> FALSE]
  ELSE IF str[i] < 32 THEN [ok |-> FALSE]
  ELSE ParseString(str, i + 1, Append(acc, str[i]))
\* The members of a JSON object from position i, behind `{` or `,`
RECURSIVE ParseMembers(_, _, _)
ParseMembers(str, i, acc) ==
  LET k == SkipWs(str, i)
  IN IF k > Len(str) \/ str[k] # QUOTE THEN [ok |-> FALSE]
     ELSE LET key == ParseString(str, k + 1, <<>>)
          IN IF ~key.ok THEN [ok |-> FALSE]
             ELSE LET c == SkipWs(str, key.next)
                  IN IF c > Len(str) \/ str[c] # 58 THEN [ok |-> FALSE]
                     ELSE LET v == SkipWs(str, c + 1)
                          IN IF v > Len(str) \/ str[v] # QUOTE THEN [ok |-> FALSE]
                             ELSE LET value == ParseString(str, v + 1, <<>>)
                                  IN IF ~value.ok THEN [ok |-> FALSE]
                                     ELSE LET e == SkipWs(str, value.next)
                                              entries == Append(acc, <<key.val, value.val>>)
                                          IN IF e > Len(str) THEN [ok |-> FALSE]
                                             ELSE IF str[e] = 44
                                             THEN ParseMembers(str, e + 1, entries)
                                             ELSE IF str[e] = 125
                                             THEN [ok |-> TRUE, val |-> entries, next |-> e + 1]
                                             ELSE [ok |-> FALSE]
\* parseJsonObject on the text itself: the pre-check, then JSON.parse
ParseJsonText(str) ==
  LET b == SkipWs(str, 1)
  IN IF b > Len(str) \/ str[b] # 123 THEN [ok |-> FALSE]
     ELSE LET m == SkipWs(str, b + 1)
              members == IF m <= Len(str) /\ str[m] = 125
                         THEN [ok |-> TRUE, val |-> <<>>, next |-> m + 1]
                         ELSE ParseMembers(str, b + 1, <<>>)
          IN IF ~members.ok THEN [ok |-> FALSE]
             ELSE IF SkipWs(str, members.next) <= Len(str) THEN [ok |-> FALSE]
             ELSE [ok |-> TRUE, val |-> members.val]

\* ------------------------------------------------------------------------
\* getPersistedQuery
\* ------------------------------------------------------------------------
MSG_SEARCH_HAS_QUERY == "Search params have \"query\" but only persisted queries are allowed."
MSG_BODY_HAS_QUERY == "Request body has \"query\" but only persisted queries are allowed."
MsgMissingQueryId(queryIdKey) ==
  "Request must provide a query ID under \"" \o queryIdKey
    \o "\" key either in search params or request body."
MsgNotFound(queryId) ==
  "The provided query ID \"" \o queryId \o "\" did not match any persisted query."

\* new URLSearchParams(req.url.split('?')[1]); a url is the sequence of its
\* '?'-separated pieces, each piece after the path a sequence of <<key, value>>.
URLSearchParams(url) == IF Len(url) >= 2 THEN url[2] ELSE <<>>
\* searchParams.has(name)
has(searchParams, name) == \E i \in 1..Len(searchParams) : searchParams[i][1] = name
\* searchParams.get(name): the first value under the name, or null
get(searchParams, name) ==
  IF has(searchParams, name)
  THEN LET first == CHOOSE i \in 1..Len(searchParams) :
                      /\ searchParams[i][1] = name
                      /\ \A j \in 1..(i - 1) : searchParams[j][1] # name
       IN Str(searchParams[first][2])
  ELSE Null

\* QueryIdOf, were the body asked first
QueryIdOf_BodyFirst(queryIdKey, searchParams, b) ==
  IF isObject(b) /\ nonNull(Get(b, queryIdKey)) THEN Get(b, queryIdKey)
  ELSE get(searchParams, queryIdKey)

\* const queryId = searchParams.get(queryIdKey) ?? (isObject(body) ? body[queryIdKey] : null)
QueryIdOf(queryIdKey, searchParams, b) ==
  IF nonNull(get(searchParams, queryIdKey)) THEN get(searchParams, queryIdKey)
  ELSE IF isObject(b) THEN Get(b, queryIdKey)
  ELSE Null

\* StrictSearchGuard, were the check left out
StrictSearchGuard_Off(strict, searchParams) == FALSE

\* if (strict && searchParams.has('query'))
StrictSearchGuard(strict, searchParams) == strict /\ has(searchParams, "query")
\* if (strict && isObject(body) && 'query' in body)
StrictBodyGuard(strict, b) == strict /\ isObject(b) /\ HasProperty(b, "query")

\* ResolveGuards, were the query map consulted before strict mode is enforced
ResolveGuards_LookupFirst(queryIdKey, url, b, strict) ==
  LET searchParams == URLSearchParams(url)
      queryId == QueryIdOf(queryIdKey, searchParams, b)
  IN IF isString(queryId) THEN [k |-> "lookup", val |-> queryId]
     ELSE IF StrictSearchGuard(strict, searchParams)
     THEN [k |-> "throw", val |-> httpError(HTTP_STATUS_BAD_REQUEST, Str(MSG_SEARCH_HAS_QUERY))]
     ELSE IF StrictBodyGuard(strict, b)
     THEN [k |-> "throw", val |-> httpError(HTTP_STATUS_BAD_REQUEST, Str(MSG_BODY_HAS_QUERY))]
     ELSE IF strict
     THEN [k |-> "throw",
           val |-> httpError(HTTP_STATUS_BAD_REQUEST, Str(MsgMissingQueryId(queryIdKey)))]
     ELSE [k |-> "return", val |-> Null]

\* ResolveGuards, were the body checked before the search params
ResolveGuards_BodyFirst(queryIdKey, url, b, strict) ==
  LET searchParams == URLSearchParams(url)
      queryId == QueryIdOf(queryIdKey, searchParams, b)
  IN IF StrictBodyGuard(strict, b)
     THEN [k |-> "throw", val |-> httpError(HTTP_STATUS_BAD_REQUEST, Str(MSG_BODY_HAS_QUERY))]
     ELSE IF StrictSearchGuard(strict, searchParams)
     THEN [k |-> "throw", val |-> httpError(HTTP_STATUS_BAD_REQUEST, Str(MSG_SEARCH_HAS_QUERY))]
     ELSE IF ~isString(queryId)
     THEN IF strict
          THEN [k |-> "throw",
                val |-> httpError(HTTP_STATUS_BAD_REQUEST, Str(MsgMissingQueryId(queryIdKey)))]
          ELSE [k |-> "return", val |-> Null]
     ELSE [k |-> "lookup", val |-> queryId]

\* ResolveGuards, were a missing id let through in strict mode as well
ResolveGuards_LenientMissingId(queryIdKey, url, b, strict) ==
  LET searchParams == URLSearchParams(url)
      queryId == QueryIdOf(queryIdKey, searchParams, b)
  IN IF StrictSearchGuard(strict, searchParams)
     THEN [k |-> "throw", val |-> httpError(HTTP_STATUS_BAD_REQUEST, Str(MSG_SEARCH_HAS_QUERY))]
     ELSE IF StrictBodyGuard(strict, b)
     THEN [k |-> "throw", val |-> httpError(HTTP_STATUS_BAD_REQUEST, Str(MSG_BODY_HAS_QUERY))]
     ELSE IF ~isString(queryId)
     THEN [k |-> "return", val |-> Null]
     ELSE [k |-> "lookup", val |-> queryId]

\* getPersistedQuery up to the lookup: what it throws, that it returns null,
\* or the id it goes on to look up.
ResolveGuards(queryIdKey, url, b, strict) ==
  LET searchParams == URLSearchParams(url)
      queryId == QueryIdOf(queryIdKey, searchParams, b)
  IN IF StrictSearchGuard(strict, searchParams)
     THEN [k |-> "throw", val |-> httpError(HTTP_STATUS_BAD_REQUEST, Str(MSG_SEARCH_HAS_QUERY))]
     ELSE IF StrictBodyGuard(strict, b)
     THEN [k |-> "throw", val |-> httpError(HTTP_STATUS_BAD_REQUEST, Str(MSG_BODY_HAS_QUERY))]
     ELSE IF ~isString(queryId)
     THEN IF strict
          THEN [k |-> "throw",
                val |-> httpError(HTTP_STATUS_BAD_REQUEST, Str(MsgMissingQueryId(queryIdKey)))]
          ELSE [k |-> "return", val |-> Null]
     ELSE [k |-> "lookup", val |-> queryId]

\* TableLookup, were the table indexed without the own-property test
TableLookup_Inherited(queryMap, queryId) == Get(queryMap, queryId)

\* The table branch: persistedQuery stays null unless the id is an own key.
TableLookup(queryMap, queryId) ==
  IF hasOwnProperty(queryMap, queryId) THEN Get(queryMap, queryId) ELSE Null

\* CheckPersistedQuery, were only null and undefined taken as not found
CheckPersistedQuery_NonNull(persistedQuery, queryId) ==
  IF ~nonNull(persistedQuery)
  THEN [k |-> "throw", val |-> httpError(HTTP_STATUS_BAD_REQUEST, Str(MsgNotFound(queryId)))]
  ELSE [k |-> "return", val |-> persistedQuery]

\* The end of getPersistedQuery: the string, or the not-found failure.
CheckPersistedQuery(persistedQuery, queryId) ==
  IF ~isString(persistedQuery)
  THEN [k |-> "throw", val |-> httpError(HTTP_STATUS_BAD_REQUEST, Str(MsgNotFound(queryId)))]
  ELSE [k |-> "return", val |-> persistedQuery]

\* AfterCallback, were a failing call caught and taken as "no query"
AfterCallback_Swallow(result, queryId) ==
  IF result.ok THEN CheckPersistedQuery(result.val, queryId)
  ELSE CheckPersistedQuery(Null, queryId)

\* `persistedQuery = await queryMap(queryId)` and what follows it, given how
\* the call settled: a failure of the call leaves getPersistedQuery as it is.
AfterCallback(result, queryId) ==
  IF result.ok THEN CheckPersistedQuery(result.val, queryId) ELSE Throw(result.val)

\* ------------------------------------------------------------------------
\* persistedQueriesMiddleware(req, res, next)
\* ------------------------------------------------------------------------
\* Inject, were it to leave a `query` the client sent in place
Inject_KeepsClientQuery(b, persistedQuery) ==
  IF isString(persistedQuery)
  THEN IF isObject(b)
       THEN IF "query" \in DOMAIN b.m THEN b ELSE Put(b, "query", persistedQuery)
       ELSE Obj([k \in {"query"} |-> persistedQuery])
  ELSE b

\* Inject, were a body that is an object left as it is
Inject_NewBodyOnly(b, persistedQuery) ==
  IF isString(persistedQuery)
  THEN IF isObject(b) THEN b ELSE Obj([k \in {"query"} |-> persistedQuery])
  ELSE b

\* Inject, were the isString test left out
Inject_Unconditional(b, persistedQuery) ==
  IF isObject(b) THEN Put(b, "query", persistedQuery)
  ELSE Obj([k \in {"query"} |-> persistedQuery])

\* if (isString(persistedQuery)) { ... }
Inject(b, persistedQuery) ==
  IF isString(persistedQuery)
  THEN IF isObject(b) THEN Put(b, "query", persistedQuery)
       ELSE Obj([k \in {"query"} |-> persistedQuery])
  ELSE b

\* The rest of the try block once getPersistedQuery has settled: next() is
\* called inside the try, so what it throws is caught like any other failure.
Finish(r, outcome) ==
  IF outcome.k = "throw"
  THEN Fail(r, outcome.val) /\ UNCHANGED <<body, nextCalls>>
  ELSE /\ body' = [body EXCEPT ![r] = Inject(body[r], outcome.val)]
       /\ nextCalls' = [nextCalls EXCEPT ![r] = @ + 1]
       /\ IF next[r].k = "throw"
          THEN Fail(r, next[r].val)
          ELSE pc' = [pc EXCEPT ![r] = "delegated"] /\ UNCHANGED res

\* Middleware, were the options parsed for each request
Middleware_ParsesOptions(r, q, n) ==
  /\ main = "constructed"
  /\ pc[r] = "idle"
  /\ req' = [req EXCEPT ![r] = q]
  /\ body' = [body EXCEPT ![r] = q.body]
  /\ next' = [next EXCEPT ![r] = n]
  /\ pc' = [pc EXCEPT ![r] = "awaitOptions"]
  /\ parseCalls' = parseCalls + 1
  /\ UNCHANGED <<res, nextCalls, lookups, awaited, stream>>
  /\ UNCHANGED <<options, main, thrown, optStage, optObject, parsedOptions, consoleErrors, trip>>

\* Middleware, were req.body kept in one place for all requests
Middleware_SharedBody(r, q, n) ==
  /\ main = "constructed"
  /\ pc[r] = "idle"
  /\ req' = [req EXCEPT ![r] = q]
  /\ body' = [x \in Reqs |-> q.body]
  /\ next' = [next EXCEPT ![r] = n]
  /\ pc' = [pc EXCEPT ![r] = "awaitOptions"]
  /\ UNCHANGED <<res, nextCalls, lookups, awaited, stream>>
  /\ UNCHANGED <<cfgVars, trip>>

\* The server hands request q and the continuation n to the middleware, which
\* suspends at `await parsedOptions`.
Middleware(r, q, n) ==
  /\ main = "constructed"
  /\ pc[r] = "idle"
  /\ req' = [req EXCEPT ![r] = q]
  /\ body' = [body EXCEPT ![r] = q.body]
  /\ next' = [next EXCEPT ![r] = n]
  /\ pc' = [pc EXCEPT ![r] = "awaitOptions"]
  /\ UNCHANGED <<res, nextCalls, lookups, awaited, stream>>
  /\ UNCHANGED <<cfgVars, trip>>

\* AwaitParsedOptions, were the wait for the configuration given up
AwaitParsedOptions_TimesOut(r) ==
  /\ pc[r] = "awaitOptions"
  /\ IF parsedOptions.st = "pending"
     THEN Fail(r, Error("Timed out."))
     ELSE IF parsedOptions.st = "rejected"
     THEN Fail(r, parsedOptions.val)
     ELSE pc' = [pc EXCEPT ![r] = "parseBody"] /\ UNCHANGED res
  /\ UNCHANGED <<req, body, nextCalls, lookups, awaited, stream, next>>
  /\ UNCHANGED <<cfgVars, trip>>

\* `await parsedOptions` settles; on success parseRequestBodyIfNecessary is called.
AwaitParsedOptions(r) ==
  /\ pc[r] = "awaitOptions"
  /\ parsedOptions.st # "pending"
  /\ IF parsedOptions.st = "rejected"
     THEN Fail(r, parsedOptions.val)
     ELSE pc' = [pc EXCEPT ![r] = "parseBody"] /\ UNCHANGED res
  /\ UNCHANGED <<req, body, nextCalls, lookups, awaited, stream, next>>
  /\ UNCHANGED <<cfgVars, trip>>

\* `await parseRequestBodyIfNecessary(req)` settles.
ParseRequestBody(r) ==
  /\ pc[r] = "parseBody"
  /\ LET parsed == parseRequestBodyIfNecessary(req[r], body[r])
     IN IF parsed.ok
        THEN /\ body' = [body EXCEPT ![r] = parsed.val]
             /\ pc' = [pc EXCEPT ![r] = "resolve"]
             /\ UNCHANGED res
        ELSE Fail(r, parsed.val) /\ UNCHANGED body
  /\ stream' = [stream EXCEPT ![r] = parseRequestBodyIfNecessary(req[r], body[r]).stream]
  /\ UNCHANGED <<req, nextCalls, lookups, awaited, next>>
  /\ UNCHANGED <<cfgVars, trip>>

\* getPersistedQuery runs: to its end for a table, to `await queryMap(queryId)`
\* for a callback.
GetPersistedQuery(r) ==
  /\ pc[r] = "resolve"
  /\ LET cfg == parsedOptions.val
         guards == ResolveGuards(cfg.queryIdKey, req[r].url, body[r], cfg.strict)
         queryId == guards.val.v
     IN IF guards.k # "lookup"
        THEN Finish(r, guards) /\ UNCHANGED <<lookups, awaited>>
        ELSE IF isFunction(cfg.queryMap)
        THEN /\ lookups' = [lookups EXCEPT ![r] = Append(@, [via |-> "callback", id |-> queryId])]
             /\ IF cfg.queryMap.f[queryId].k = "throw"
                THEN /\ Finish(r, AfterCallback([ok |-> FALSE, val |-> cfg.queryMap.f[queryId].val],
                                                queryId))
                     /\ UNCHANGED awaited
                ELSE /\ awaited' = [awaited EXCEPT ![r] = cfg.queryMap.f[queryId].val]
                     /\ pc' = [pc EXCEPT ![r] = "awaitQueryMap"]
                     /\ UNCHANGED <<body, res, nextCalls>>
        ELSE /\ lookups' = [lookups EXCEPT ![r] = Append(@, [via |-> "table", id |-> queryId])]
             /\ Finish(r, CheckPersistedQuery(TableLookup(cfg.queryMap, queryId), queryId))
             /\ UNCHANGED awaited
  /\ UNCHANGED <<req, stream, next>>
  /\ UNCHANGED <<cfgVars, trip>>

\* `await queryMap(queryId)` settles and getPersistedQuery runs to its end.
QueryMapSettles(r) ==
  /\ pc[r] = "awaitQueryMap"
  /\ Settled(awaited[r])
  /\ LET result == Await(awaited[r])
         queryId == lookups[r][Len(lookups[r])].id
     IN Finish(r, AfterCallback(result, queryId))
  /\ awaited' = [awaited EXCEPT ![r] = Undefined]
  /\ UNCHANGED <<req, lookups, stream, next>>
  /\ UNCHANGED <<cfgVars, trip>>

\* ------------------------------------------------------------------------
\* persistedQueriesMiddleware of the build that delegates to bodyParser
\* ------------------------------------------------------------------------
\* The server hands request q and the continuation n to the middleware, which
\* calls bodyParserMiddleware with the rest of its work as the continuation.
DelegatingMiddleware(r, q, n) ==
  /\ main = "constructed"
  /\ pc[r] = "idle"
  /\ req' = [req EXCEPT ![r] = q]
  /\ body' = [body EXCEPT ![r] = q.body]
  /\ next' = [next EXCEPT ![r] = n]
  /\ pc' = [pc EXCEPT ![r] = "bodyParser"]
  /\ UNCHANGED <<res, nextCalls, lookups, awaited, stream>>
  /\ UNCHANGED <<cfgVars, trip>>

\* bodyParserMiddleware runs to its end: it answers a failure itself, and
\* calls the continuation otherwise, which suspends at `await parsedOptions`.
BodyParserMiddleware(r) ==
  /\ pc[r] = "bodyParser"
  /\ LET parsed == bodyParserMiddleware(req[r], body[r], DEFAULT_MAX_SIZE)
     IN /\ IF parsed.ok
           THEN /\ body' = [body EXCEPT ![r] = parsed.val]
                /\ pc' = [pc EXCEPT ![r] = "awaitOptionsParsed"]
                /\ UNCHANGED res
           ELSE /\ res' = [res EXCEPT ![r] = BodyParserErrorResponse(parsed.val)]
                /\ pc' = [pc EXCEPT ![r] = "failed"]
                /\ UNCHANGED body
        /\ stream' = [stream EXCEPT ![r] = parsed.stream]
  /\ UNCHANGED <<req, nextCalls, lookups, awaited, next>>
  /\ UNCHANGED <<cfgVars, trip>>

\* `await parsedOptions` settles; on success getPersistedQuery is called.
AwaitParsedOptionsParsed(r) ==
  /\ pc[r] = "awaitOptionsParsed"
  /\ parsedOptions.st # "pending"
  /\ IF parsedOptions.st = "rejected"
     THEN Fail(r, parsedOptions.val)
     ELSE pc' = [pc EXCEPT ![r] = "resolve"] /\ UNCHANGED res
  /\ UNCHANGED <<req, body, nextCalls, lookups, awaited, stream, next>>
  /\ UNCHANGED <<cfgVars, trip>>

\* ------------------------------------------------------------------------
\* Inputs: the options a server may pass, the requests a client may send
\* ------------------------------------------------------------------------
QueryIds == {"greet", "toString", "nope"}
GREET == Str("{ greet }")

\* Tables: a plain one, one with null / undefined / non-string entries, one
\* with an own key named like an inherited member, one that inherits entries
\* (Object.create(defaults)).
Tables ==
  { Obj([k \in {"greet"} |-> GREET]),
    Obj([k \in {"greet", "nope"} |-> IF k = "greet" THEN Null ELSE Undefined]),
    Obj([k \in {"greet", "toString"} |-> IF k = "greet" THEN Num("42") ELSE Str("{ own }")]),
    ObjWithProto([k \in {"nope"} |-> Str("{ nope }")],
                 [k \in {"greet", "toString"} |->
                    IF k = "greet" THEN Str("{ inherited }") ELSE Fn(<<>>)]) }

BOOM == Error("boom")
\* Callbacks: synchronous results, promised results, and failures (thrown or
\* rejected; plain, carrying a status or statusCode of their own, not an Error).
Callbacks ==
  { Fn([k \in QueryIds |->
         CASE k = "greet" -> Return(GREET)
           [] k = "toString" -> Return(Null)
           [] OTHER -> Return(Undefined)]),
    Fn([k \in QueryIds |->
         CASE k = "greet" -> Return(Resolved(GREET))
           [] k = "toString" -> Return(Resolved(Num("42")))
           [] OTHER -> Return(Rejected(BOOM))]),
    Fn([k \in QueryIds |->
         CASE k = "greet" -> Throw(BOOM)
           [] k = "toString" -> Throw(Err("Error", "upstream", 404, 0))
           [] OTHER -> Return(Rejected(Err("Error", "cached", 0, 200)))]),
    Fn([k \in QueryIds |->
         CASE k = "greet" -> Return(Resolved(Null))
           [] k = "toString" -> Throw(Str("oops"))
           [] OTHER -> Return(Rejected(Str("oops")))]) }

QueryMaps == Tables \cup Callbacks

\* An options object: queryMap with optional queryIdKey and strict.
OptionsObject(queryMap, queryIdKey, strict) ==
  LET present == {"queryMap"}
                 \cup (IF queryIdKey = Undefined THEN {} ELSE {"queryIdKey"})
                 \cup (IF strict = Undefined THEN {} ELSE {"strict"})
  IN Obj([k \in present |->
            CASE k = "queryMap" -> queryMap
              [] k = "queryIdKey" -> queryIdKey
              [] OTHER -> strict])

\* (queryIdKey, strict) as given: absent, a string, a non-string; absent,
\* true, false.
KeyAndStrict ==
  { <<Undefined, Undefined>>, <<Undefined, Bool("true")>>, <<Str("id"), Bool("false")>>,
    <<Str("id"), Bool("true")>>, <<Num("7"), Bool("true")>> }

ValidOptions ==
  { OptionsObject(qm, ks[1], ks[2]) : qm \in QueryMaps, ks \in KeyAndStrict }

\* Options that are missing, promises (settling or not), hold a promised
\* queryMap, or are invalid.
OtherOptions ==
  { Undefined, Null,
    Resolved(OptionsObject(Obj([k \in {"greet"} |-> GREET]), Undefined, Bool("true"))),
    Resolved(Null), Resolved(Str("options")),
    Rejected(Error("Failed to resolve options.")),
    Rejected(Err("Error", "upstream", 404, 0)),
    Forever,
    Obj(NoEntries),
    OptionsObject(Str("queryMap"), Undefined, Undefined),
    OptionsObject(Resolved(Obj([k \in {"greet"} |-> GREET])), Str("id"), Undefined),
    OptionsObject(Resolved(Null), Undefined, Undefined),
    OptionsObject(Rejected(Error("Failed to resolve options.queryMap.")), Undefined, Undefined),
    OptionsObject(Rejected(Err("Error", "cached", 0, 200)), Undefined, Bool("true")) }

OptionsInputs == ValidOptions \cup OtherOptions

\* Search parameters
SearchPairs ==
  { <<"query", "{ client }">>, <<"queryId", "greet">>, <<"queryId", "nope">>,
    <<"id", "toString">> }
\* Search strings of up to MaxParams parameters, no parameter repeated verbatim
SearchStrings ==
  UNION { {sp \in [1..n -> SearchPairs] : \A i, j \in 1..n : sp[i] = sp[j] => i = j} :
          n \in 0..MaxParams }
Urls == {<<"/graphql">>} \cup {<<"/graphql", sp>> : sp \in SearchStrings}

\* Body mappings, as a body parser upstream or this middleware produces them
CLIENT == Str("{ client }")
BodyMaps ==
  { NoEntries,
    [k \in {"query"} |-> CLIENT],
    [k \in {"queryId", "foo"} |-> IF k = "foo" THEN Str("bar") ELSE Str("greet")],
    [k \in {"queryId", "id"} |-> IF k = "id" THEN Str("greet") ELSE Str("toString")],
    [k \in {"queryId"} |-> Num("42")],
    [k \in {"queryId", "query"} |-> IF k = "query" THEN Null ELSE Str("greet")],
    [k \in {"queryId", "query", "foo"} |->
       CASE k = "query" -> CLIENT [] k = "foo" -> Str("bar") [] OTHER -> Str("nope")] }
FormMaps == {m \in BodyMaps : \A k \in DOMAIN m : isString(m[k])}

\* A payload: the decoded text (by what it holds), the chunks in which the
\* decoded stream delivers it (each with its bytes and the characters they
\* decode to), and the error the stream fails with, if any.
Chunk(bytes, chars) == [bytes |-> bytes, chars |-> chars]
NoPayload == [text |-> [k |-> "empty"], chunks |-> <<>>, streamError |-> ""]
Payload(text) == [text |-> text, chunks |-> <<Chunk(64, 64)>>, streamError |-> ""]
\* One chunk of single-byte characters, one byte over the ceiling
TooLarge(text) ==
  [text |-> text,
   chunks |-> <<Chunk(MAX_BUFFER_SIZE_KIB * UNIT_KIB + 1, MAX_BUFFER_SIZE_KIB * UNIT_KIB + 1)>>,
   streamError |-> ""]

Request(url, b, contentType, charset, contentEncoding, payload) ==
  [url |-> url, body |-> b, contentType |-> contentType, charset |-> charset,
   contentEncoding |-> contentEncoding, payload |-> payload]

\* What reaches the middleware apart from the url: a body set upstream, no
\* body at all, a JSON or form body to parse, or a body that cannot be parsed.
Transports ==
  { Request(<<>>, b, "", "", "", NoPayload) :
      b \in {Undefined, Null, Str("raw")} \cup {Obj(m) : m \in BodyMaps} }
  \cup
  { Request(<<>>, Undefined, CONTENT_TYPE_JSON, "", "", Payload([k |-> "object", m |-> m])) :
      m \in {b \in BodyMaps : "foo" \in DOMAIN b \/ DOMAIN b = {"query"}} }
  \cup
  { Request(<<>>, Null, CONTENT_TYPE_FORM_URL_ENCODED, "UTF-8", "GZIP",
            Payload([k |-> "form", m |-> m])) : m \in FormMaps }
  \cup
  { Request(<<>>, Undefined, "multipart/form-data", "", "", Payload([k |-> "array"])),
    Request(<<>>, Null, "text/plain", "utf-18", "br",
            TooLarge([k |-> "truncated"])),
    Request(<<>>, Undefined, "", "", "br",
            TooLarge([k |-> "array"])),
    Request(<<>>, Obj([k \in {"queryId"} |-> Str("greet")]), "invalid", "utf-18", "br",
            Payload([k |-> "array"])),
    Request(<<>>, Undefined, "invalid", "", "", NoPayload),
    Request(<<>>, Str("raw"), CONTENT_TYPE_JSON, "latin1", "br",
            TooLarge([k |-> "array"])),
    Request(<<>>, Undefined, CONTENT_TYPE_JSON, "", "", Payload([k |-> "array"])),
    Request(<<>>, Undefined, CONTENT_TYPE_JSON, "utf8", "deflate", Payload([k |-> "truncated"])),
    Request(<<>>, Null, CONTENT_TYPE_JSON, "utf-18", "", Payload([k |-> "object", m |-> NoEntries])),
    Request(<<>>, Undefined, CONTENT_TYPE_FORM_URL_ENCODED, "", "br",
            Payload([k |-> "form", m |-> NoEntries])),
    Request(<<>>, Undefined, CONTENT_TYPE_FORM_URL_ENCODED, "Latin1", "br",
            Payload([k |-> "form", m |-> [k \in {"queryId"} |-> Str("greet")]])),
    Request(<<>>, Undefined, CONTENT_TYPE_JSON, "Utf16LE", "deflate",
            Payload([k |-> "object", m |-> [k \in {"queryId"} |-> Str("greet")]])),
    Request(<<>>, Undefined, CONTENT_TYPE_JSON, "UTF8", "BR",
            Payload([k |-> "object", m |-> [k \in {"queryId"} |-> Str("greet")]])),
    Request(<<>>, Undefined, CONTENT_TYPE_JSON, "", "gzip",
            [text |-> [k |-> "empty"], chunks |-> <<>>, streamError |-> "incorrect header check"]),
    Request(<<>>, Undefined, CONTENT_TYPE_JSON, "", "",
            TooLarge([k |-> "object", m |-> NoEntries])) }

Requests == {[t EXCEPT !.url = u] : t \in Transports, u \in Urls}

\* The continuation: under Express the router catches what the handlers
\* behind next() throw, so the call returns; a bare continuation may throw.
Returns == Return(Undefined)
Continuations == {Returns, Throw(Error("downstream failed"))}

\* ------------------------------------------------------------------------
\* One middleware instance serving one request
\* ------------------------------------------------------------------------
NoRequest == Request(<<>>, Undefined, "", "", "", NoPayload)

\* Before persistedQueries is called
Start ==
  /\ main = "start"
  /\ thrown = Undefined
  /\ parseCalls = 0
  /\ optStage = "idle"
  /\ optObject = Undefined
  /\ parsedOptions = Pending
  /\ consoleErrors = <<>>
  /\ pc = [r \in Reqs |-> "idle"]
  /\ req = [r \in Reqs |-> NoRequest]
  /\ body = [r \in Reqs |-> Undefined]
  /\ res = [r \in Reqs |-> NoResponse]
  /\ nextCalls = [r \in Reqs |-> 0]
  /\ lookups = [r \in Reqs |-> <<>>]
  /\ awaited = [r \in Reqs |-> Undefined]
  /\ stream = [r \in Reqs |-> Untouched]
  /\ next = [r \in Reqs |-> Returns]

Init == options \in OptionsInputs /\ Start /\ trip = NoTrip

Single == {r \in Reqs : \A other \in Reqs : r <= other}

Next ==
  \/ PersistedQueries
  \/ ParseOptionsAwaitOptions
  \/ ParseOptionsAwaitQueryMap
  \/ \E r \in Single, q \in Requests : Middleware(r, q, Returns)
  \/ \E r \in Single : AwaitParsedOptions(r)
  \/ \E r \in Single : ParseRequestBody(r)
  \/ \E r \in Single : GetPersistedQuery(r)
  \/ \E r \in Single : QueryMapSettles(r)

Spec == Init /\ [][Next]_vars

\* ------------------------------------------------------------------------
\* A sample of the inputs, for the specifications that vary something else
\* ------------------------------------------------------------------------
PlainTable == Obj([k \in {"greet"} |-> GREET])
SampleOptions ==
  { OptionsObject(PlainTable, Undefined, Undefined),
    OptionsObject(PlainTable, Undefined, Bool("true")),
    OptionsObject(Fn([k \in QueryIds |->
                       CASE k = "greet" -> Return(Resolved(GREET))
                         [] k = "toString" -> Return(Resolved(Num("42")))
                         [] OTHER -> Return(Rejected(BOOM))]), Undefined, Undefined),
    Resolved(OptionsObject(PlainTable, Undefined, Bool("true"))),
    Resolved(Null),
    Rejected(Error("Failed to resolve options.")),
    Rejected(Err("Error", "upstream", 404, 0)),
    Obj(NoEntries),
    OptionsObject(Rejected(Error("Failed to resolve options.queryMap.")), Undefined, Undefined) }

SampleUrls ==
  { <<"/graphql">>, <<"/graphql", <<<<"queryId", "greet">>>>>>,
    <<"/graphql", <<<<"queryId", "nope">>>>>> }
SampleRequests ==
  { [t EXCEPT !.url = u] :
      t \in { Request(<<>>, Undefined, "", "", "", NoPayload),
              Request(<<>>, Obj([k \in {"query"} |-> CLIENT]), "", "", "", NoPayload),
              Request(<<>>, Undefined, CONTENT_TYPE_JSON, "", "",
                      Payload([k |-> "object", m |-> [k \in {"queryId"} |-> Str("greet")]])),
              Request(<<>>, Undefined, CONTENT_TYPE_JSON, "", "", Payload([k |-> "array"])) },
      u \in SampleUrls }

\* ------------------------------------------------------------------------
\* One request whose continuation may throw
\* ------------------------------------------------------------------------
InitThrowingNext == options \in SampleOptions /\ Start /\ trip = NoTrip

NextThrowingNext ==
  \/ PersistedQueries
  \/ ParseOptionsAwaitOptions
  \/ ParseOptionsAwaitQueryMap
  \/ \E r \in Single, q \in SampleRequests, n \in Continuations : Middleware(r, q, n)
  \/ \E r \in Single : AwaitParsedOptions(r)
  \/ \E r \in Single : ParseRequestBody(r)
  \/ \E r \in Single : GetPersistedQuery(r)
  \/ \E r \in Single : QueryMapSettles(r)

SpecThrowingNext == InitThrowingNext /\ [][NextThrowingNext]_vars

\* ------------------------------------------------------------------------
\* One middleware instance serving several requests, interleaved in any way
\* ------------------------------------------------------------------------
ConcurrentRequests ==
  { Request(<<"/graphql", <<<<"queryId", "greet">>>>>>, Undefined, "", "", "", NoPayload),
    Request(<<"/graphql", <<<<"queryId", "nope">>>>>>, Undefined, "", "", "", NoPayload),
    Request(<<"/graphql">>, Undefined, CONTENT_TYPE_JSON, "", "",
            Payload([k |-> "object", m |-> [k \in {"queryId"} |-> Str("greet")]])),
    Request(<<"/graphql">>, Undefined, CONTENT_TYPE_JSON, "", "", Payload([k |-> "array"])) }

InitConcurrent == options \in SampleOptions /\ Start /\ trip = NoTrip

NextConcurrent ==
  \/ PersistedQueries
  \/ ParseOptionsAwaitOptions
  \/ ParseOptionsAwaitQueryMap
  \/ \E r \in Reqs, q \in ConcurrentRequests : Middleware(r, q, Returns)
  \/ \E r \in Reqs : AwaitParsedOptions(r)
  \/ \E r \in Reqs : ParseRequestBody(r)
  \/ \E r \in Reqs : GetPersistedQuery(r)
  \/ \E r \in Reqs : QueryMapSettles(r)

SpecConcurrent == InitConcurrent /\ [][NextConcurrent]_vars

\* ------------------------------------------------------------------------
\* One request whose body arrives in chunks of given sizes
\* ------------------------------------------------------------------------
\* The 'data' handler of get-stream after its promise was rejected: get-stream
\* rejects with MaxBufferError and leaves the pipeline as it is (no destroy,
\* no unpipe), so the chunks the client still sends are read from the request
\* and pushed onto the buffer of the rejected call.
StreamFlows(r) ==
  /\ pc[r] # "idle"
  /\ stream[r] # Untouched
  /\ \E i \in 1..Len(req[r].payload.chunks) :
       /\ Total(req[r].payload.chunks, i - 1, "bytes") = stream[r].read
       /\ stream' = [stream EXCEPT ![r] =
                       [@ EXCEPT !.read = @ + req[r].payload.chunks[i].bytes,
                                 !.buffered = @ + req[r].payload.chunks[i].bytes]]
  /\ UNCHANGED <<pc, req, body, res, nextCalls, lookups, awaited, next>>
  /\ UNCHANGED <<cfgVars, trip>>

CEILING == MAX_BUFFER_SIZE_KIB * UNIT_KIB
\* The chunks of a decoded stream: exactly the ceiling (in one chunk, in two);
\* one byte more; one byte more with three-byte characters ('{"a":"' and '"}'
\* around 34131 of them); the ceiling and two bytes more in two-byte characters
\* (utf16le); three chunks that cross the ceiling in the second.
SizedChunks ==
  { <<Chunk(CEILING, CEILING)>>,
    <<Chunk(65536, 65536), Chunk(CEILING - 65536, CEILING - 65536)>>,
    <<Chunk(CEILING + 1, CEILING + 1)>>,
    <<Chunk(CEILING + 1, 8 + 34131)>>,
    <<Chunk(CEILING, CEILING \div 2)>>,
    <<Chunk(CEILING + 2, CEILING \div 2 + 1)>>,
    <<Chunk(65536, 65536), Chunk(65536, 65536), Chunk(65536, 65536)>> }
Sized(text, chunks) == [text |-> text, chunks |-> chunks, streamError |-> ""]

StreamingOptions ==
  { OptionsObject(PlainTable, Undefined, Undefined),
    OptionsObject(PlainTable, Undefined, Bool("true")),
    Rejected(Error("Failed to resolve options.")) }
StreamingRequests ==
  { Request(u, Undefined, CONTENT_TYPE_JSON, "", "",
            Sized([k |-> "object", m |-> [k \in {"queryId"} |-> Str("greet")]], c)) :
      u \in SampleUrls, c \in SizedChunks }
  \cup
  { Request(u, Undefined, CONTENT_TYPE_FORM_URL_ENCODED, "utf8", "gzip",
            Sized([k |-> "form", m |-> [k \in {"queryId"} |-> Str("greet")]], c)) :
      u \in SampleUrls, c \in SizedChunks }

\* Bodies sent as application/json that hold no JSON object, and one that
\* holds one behind white space
JsonTexts ==
  { Payload([k |-> "array"]), Payload([k |-> "scalar"]), Payload([k |-> "form"]),
    Payload([k |-> "truncated"]), Payload([k |-> "malformed"]), NoPayload,
    Payload([k |-> "padded", m |-> [k \in {"queryId"} |-> Str("greet")]]) }
JsonRequests ==
  { Request(u, Undefined, CONTENT_TYPE_JSON, ce[1], ce[2], p) :
      u \in SampleUrls, ce \in {<<"", "">>, <<"utf16le", "gzip">>}, p \in JsonTexts }

InitStreaming == options \in StreamingOptions /\ Start /\ trip = NoTrip

NextStreaming ==
  \/ PersistedQueries
  \/ ParseOptionsAwaitOptions
  \/ ParseOptionsAwaitQueryMap
  \/ \E r \in Single, q \in StreamingRequests \cup JsonRequests : Middleware(r, q, Returns)
  \/ \E r \in Single : AwaitParsedOptions(r)
  \/ \E r \in Single : ParseRequestBody(r)
  \/ \E r \in Single : GetPersistedQuery(r)
  \/ \E r \in Single : StreamFlows(r)

SpecStreaming == InitStreaming /\ [][NextStreaming]_vars

\* ------------------------------------------------------------------------
\* One request to the build that delegates to bodyParser
\* ------------------------------------------------------------------------
BodyParserRequests ==
  StreamingRequests
  \cup
  { Request(u, Undefined, ct, cs, "", Payload([k |-> "array"])) :
      u \in SampleUrls, ct \in {CONTENT_TYPE_JSON, "text/plain"}, cs \in {"", "latin1"} }
  \cup
  { Request(u, b, "", "", "", NoPayload) :
      u \in SampleUrls, b \in {Undefined, Obj([k \in {"query"} |-> CLIENT])} }

InitBodyParser == options \in StreamingOptions /\ Start /\ trip = NoTrip

NextBodyParser ==
  \/ PersistedQueries
  \/ ParseOptionsAwaitOptions
  \/ ParseOptionsAwaitQueryMap
  \/ \E r \in Single, q \in BodyParserRequests : DelegatingMiddleware(r, q, Returns)
  \/ \E r \in Single : BodyParserMiddleware(r)
  \/ \E r \in Single : AwaitParsedOptionsParsed(r)
  \/ \E r \in Single : GetPersistedQuery(r)
  \/ \E r \in Single : StreamFlows(r)

SpecBodyParser == InitBodyParser /\ [][NextBodyParser]_vars

\* ------------------------------------------------------------------------
\* A body from the client's mapping to req.body
\* ------------------------------------------------------------------------
\* Strings: q, id; the empty string, a, a quote, a backslash, e with acute
\* (two bytes in UTF-8), a heart (three), a face (four, a surrogate pair)
KeyQ == <<113>>
KeyId == <<105, 100>>
TripValues ==
  { <<>>, <<97>>, <<QUOTE>>, <<97, BACKSLASH, 233>>, <<9829, 32, 125>>, <<55357, 56832, 97>> }
TripMappings ==
  {<<>>}
  \cup { << <<KeyQ, v>> >> : v \in TripValues }
  \cup { << <<KeyId, v>>, <<KeyQ, <<103>>>> >> : v \in TripValues }
TripCharsets == {"utf-8", "utf8", "utf16le"}
TripEncodings == {"identity", "gzip", "deflate"}

\* The client: JSON.stringify(mapping)
ClientStringifies ==
  /\ trip.stage = "mapping"
  /\ trip' = [trip EXCEPT !.stage = "json", !.data = JSONStringify(trip.mapping)]
  /\ UNCHANGED <<cfgVars, reqVars>>
\* The client: the text in the declared charset
ClientEncodes ==
  /\ trip.stage = "json"
  /\ trip' = [trip EXCEPT !.stage = "encoded", !.data = EncodeText(trip.charset, trip.data)]
  /\ UNCHANGED <<cfgVars, reqVars>>
\* The client: the bytes in the declared Content-Encoding
ClientCompresses ==
  /\ trip.stage = "encoded"
  /\ trip' = [trip EXCEPT !.stage = "wire", !.data = Compress(trip.encoding, trip.data)]
  /\ UNCHANGED <<cfgVars, reqVars>>
\* readRawBody on the bytes of the wire
ReadsRawBody ==
  /\ trip.stage = "wire"
  /\ LET charset == ToLowerCase(trip.charset)
         encoding == ToLowerCase(trip.encoding)
         decompressed == Decompress(Transform(encoding), trip.data)
     IN trip' =
          IF ~isCharsetSupported(charset) \/ ~isEncodingSupported(encoding)
          THEN [trip EXCEPT !.stage = "failed", !.data = HTTP_STATUS_UNSUPPORTED_MEDIA_TYPE]
          ELSE IF ~decompressed.ok
          THEN [trip EXCEPT !.stage = "failed", !.data = HTTP_STATUS_BAD_REQUEST]
          ELSE IF Len(decompressed.val) > DEFAULT_MAX_SIZE
          THEN [trip EXCEPT !.stage = "failed", !.data = HTTP_STATUS_PAYLOAD_TOO_LARGE]
          ELSE [trip EXCEPT !.stage = "text", !.data = DecodeText(charset, decompressed.val)]
  /\ UNCHANGED <<cfgVars, reqVars>>
\* req.body = parseJsonObject(rawBody)
ParsesJsonObject ==
  /\ trip.stage = "text"
  /\ trip' =
       IF ParseJsonText(trip.data).ok
       THEN [trip EXCEPT !.stage = "body", !.data = ParseJsonText(trip.data).val]
       ELSE [trip EXCEPT !.stage = "failed", !.data = HTTP_STATUS_BAD_REQUEST]
  /\ UNCHANGED <<cfgVars, reqVars>>

InitRoundTrip ==
  /\ options = OptionsObject(PlainTable, Undefined, Undefined)
  /\ Start
  /\ trip \in [stage : {"mapping"}, mapping : TripMappings, charset : TripCharsets,
               encoding : TripEncodings, data : {<<>>}]

NextRoundTrip ==
  \/ ClientStringifies
  \/ ClientEncodes
  \/ ClientCompresses
  \/ ReadsRawBody
  \/ ParsesJsonObject

SpecRoundTrip == InitRoundTrip /\ [][NextRoundTrip]_vars

\* ------------------------------------------------------------------------
\* One request answered with an error, and sendJson on the bytes
\* ------------------------------------------------------------------------
\* Failures of the server's own: plain, or carrying extensions the way a
\* GraphQLError does (an object, or something else)
CODED == Obj([k \in {"code"} |-> Str("E_BOOM")])
EnvelopeOptions ==
  { OptionsObject(PlainTable, Undefined, Bool("true")),
    OptionsObject(Fn([k \in QueryIds |->
                       CASE k = "greet" -> Throw(WithExtensions(BOOM, CODED))
                         [] k = "toString" -> Return(Resolved(GREET))
                         [] OTHER -> Return(Rejected(WithExtensions(BOOM, Str("E_BOOM"))))]),
                  Undefined, Undefined),
    Rejected(Error("Failed to resolve options.")),
    Rejected(WithExtensions(Error("Failed to resolve options."), CODED)) }

\* {"errors":[{"message":"<text>"}]} as JSON.stringify writes it
ErrorsJson(message) ==
  <<123, 34, 101, 114, 114, 111, 114, 115, 34, 58, 91, 123,
    34, 109, 101, 115, 115, 97, 103, 101, 34, 58>>
  \o Quoted(message) \o <<125, 93, 125>>
\* Messages: boom; ID "<heart>" not found; one with a backslash and a face
EnvelopeMessages ==
  { <<98, 111, 111, 109>>,
    <<73, 68, 32, 34, 9829, 34, 32, 110, 111, 116, 32, 102, 111, 117, 110, 100>>,
    <<92, 55357, 56832, 233>> }

\* sendJson(res, payload) on the text of the payload
SendsJson ==
  /\ trip.stage = "payload"
  /\ LET json == ErrorsJson(trip.message)
         buffer == Utf8Encode(json)
     IN trip' = [trip EXCEPT !.stage = "response",
                             !.data = [contentType |-> CONTENT_TYPE_JSON \o "; charset=utf-8",
                                       contentLength |-> Len(buffer),
                                       end |-> buffer]]
  /\ UNCHANGED <<cfgVars, reqVars>>

InitEnvelope ==
  /\ options \in EnvelopeOptions
  /\ Start
  /\ trip \in [stage : {"payload"}, message : EnvelopeMessages, data : {<<>>}]

NextEnvelope ==
  \/ PersistedQueries
  \/ ParseOptionsAwaitOptions
  \/ ParseOptionsAwaitQueryMap
  \/ \E r \in Single, q \in SampleRequests : Middleware(r, q, Returns)
  \/ \E r \in Single : AwaitParsedOptions(r)
  \/ \E r \in Single : ParseRequestBody(r)
  \/ \E r \in Single : GetPersistedQuery(r)
  \/ \E r \in Single : QueryMapSettles(r)
  \/ SendsJson

SpecEnvelope == InitEnvelope /\ [][NextEnvelope]_vars

\* ------------------------------------------------------------------------
\* Several requests under the scheduling of the event loop
\* ------------------------------------------------------------------------
\* Options that settle, options that never do, a queryMap that never does, a
\* callback whose promise for one id never does
LiveOptions ==
  { OptionsObject(PlainTable, Undefined, Bool("true")),
    OptionsObject(Fn([k \in QueryIds |->
                       CASE k = "greet" -> Return(Resolved(GREET))
                         [] k = "toString" -> Throw(BOOM)
                         [] OTHER -> Return(Forever)]), Undefined, Undefined),
    Resolved(OptionsObject(PlainTable, Undefined, Undefined)),
    Rejected(Error("Failed to resolve options.")),
    Forever,
    OptionsObject(Forever, Undefined, Undefined) }

LiveRequests ==
  { Request(<<"/graphql", <<<<"queryId", "nope">>>>>>, Undefined, "", "", "", NoPayload),
    Request(<<"/graphql">>, Undefined, CONTENT_TYPE_JSON, "", "",
            Payload([k |-> "object", m |-> [k \in {"queryId"} |-> Str("greet")]])) }

InitLive == options \in LiveOptions /\ Start /\ trip = NoTrip

NextLive ==
  \/ PersistedQueries
  \/ ParseOptionsAwaitOptions
  \/ ParseOptionsAwaitQueryMap
  \/ \E r \in Reqs, q \in LiveRequests : Middleware(r, q, Returns)
  \/ \E r \in Reqs : AwaitParsedOptions(r)
  \/ \E r \in Reqs : ParseRequestBody(r)
  \/ \E r \in Reqs : GetPersistedQuery(r)
  \/ \E r \in Reqs : QueryMapSettles(r)

\* The event loop runs every continuation whose promise has settled: a step
\* that stays enabled is taken.  When a request arrives is up to the clients.
Fairness ==
  /\ WF_vars(PersistedQueries)
  /\ WF_vars(ParseOptionsAwaitOptions)
  /\ WF_vars(ParseOptionsAwaitQueryMap)
  /\ \A r \in Reqs :
       /\ WF_vars(AwaitParsedOptions(r))
       /\ WF_vars(ParseRequestBody(r))
       /\ WF_vars(GetPersistedQuery(r))
       /\ WF_vars(QueryMapSettles(r))

SpecLive == InitLive /\ [][NextLive]_vars /\ Fairness

\* ------------------------------------------------------------------------
\* Vocabulary of the properties
\* ------------------------------------------------------------------------
Done(r) == pc[r] \in {"delegated", "failed"}
Configured == parsedOptions.st = "fulfilled"
\* The options object as the server gave it (behind its promise, if any)
OptionsGiven == IF options.t = "promise" THEN options.val ELSE options
StrictGiven == Configured /\ Get(OptionsGiven, "strict") = Bool("true")
NonStrictGiven == Configured /\ Get(OptionsGiven, "strict") \in {Undefined, Bool("false")}
ConfiguredKey ==
  IF Get(OptionsGiven, "queryIdKey").t = "string"
  THEN Get(OptionsGiven, "queryIdKey").v ELSE "queryId"
QueryMapGiven ==
  IF Get(OptionsGiven, "queryMap").t = "promise"
  THEN Get(OptionsGiven, "queryMap").val ELSE Get(OptionsGiven, "queryMap")

\* The search parameters of request r, and its first value under a key
SearchOf(r) == IF Len(req[r].url) >= 2 THEN req[r].url[2] ELSE <<>>
InSearch(r, key) == \E i \in 1..Len(SearchOf(r)) : SearchOf(r)[i][1] = key
\* Body materialization of request r, and req.body as it leaves it
Materialized(r) == parseRequestBodyIfNecessary(req[r], req[r].body)
BodyIn(r) == IF Materialized(r).ok THEN Materialized(r).val ELSE req[r].body
InBody(r, key) == BodyIn(r).t = "object" /\ HasProperty(BodyIn(r), key)
\* The request went through configuration and materialization to the resolver
ResolverRan(r) == Done(r) /\ Configured /\ Materialized(r).ok

\* The middleware answered r with exactly this status and this one message,
\* and did not call next().
RespondedWith(r, statusCode, message) ==
  /\ pc[r] = "failed"
  /\ res[r] = [sent |-> TRUE, statusCode |-> statusCode,
               contentType |-> "application/json; charset=utf-8",
               payload |-> [errors |-> <<[message |-> message]>>]]
  /\ nextCalls[r] = 0
\* The middleware called next() once and wrote nothing.
Delegated(r) == pc[r] = "delegated" /\ nextCalls[r] = 1 /\ res[r] = [sent |-> FALSE]

\* The id of r's query map consultation, and what the query map holds for it:
\* the own entry of a table, the value a callback returns or resolves with.
LookedUp(r) == lookups[r] # <<>>
LookupId(r) == lookups[r][1].id
LookupValue(r) ==
  LET qm == QueryMapGiven
      id == LookupId(r)
  IN IF qm.t = "function"
     THEN IF qm.f[id].k = "throw" THEN [failed |-> TRUE, val |-> qm.f[id].val]
          ELSE IF qm.f[id].val.t = "promise"
          THEN [failed |-> qm.f[id].val.st = "rejected", val |-> qm.f[id].val.val]
          ELSE [failed |-> FALSE, val |-> qm.f[id].val]
     ELSE [failed |-> FALSE, val |-> IF id \in DOMAIN qm.m THEN qm.m[id] ELSE Undefined]
ResolvesToString(r) == LookedUp(r) /\ ~LookupValue(r).failed /\ LookupValue(r).val.t = "string"

\* ------------------------------------------------------------------------
\* Properties
\* ------------------------------------------------------------------------

NoStringId(r) ==
  /\ ~InSearch(r, ConfiguredKey)
  /\ ~(BodyIn(r).t = "object" /\ Get(BodyIn(r), ConfiguredKey).t = "string")

MissingIdMessage ==
  "Request must provide a query ID under \"" \o ConfiguredKey
    \o "\" key either in search params or request body."

\* C2 as stated: with strict=true every request with `query` in its search
\* params is answered 400 'Search params have "query" ...', is not delegated
\* and gets no body.query injected.
C2_StrictSearchQueryAlways400 ==
  \A r \in Reqs :
    (Done(r) /\ StrictGiven /\ InSearch(r, "query")) =>
      /\ RespondedWith(r, 400,
           "Search params have \"query\" but only persisted queries are allowed.")
      /\ body[r] = BodyIn(r)

\* C2 as amended: with strict=true every request with `query` in its search
\* params is rejected without delegation and without injection, and with 400
\* 'Search params have "query" ...' whenever its body materialization did not
\* fail first.
C2_StrictSearchQueryRejected ==
  \A r \in Reqs :
    (Done(r) /\ StrictGiven /\ InSearch(r, "query")) =>
      /\ pc[r] = "failed" /\ res[r].sent /\ nextCalls[r] = 0
      /\ body[r] = BodyIn(r)
      /\ Materialized(r).ok =>
           RespondedWith(r, 400,
             "Search params have \"query\" but only persisted queries are allowed.")

\* C2 witness: a strict request with `query` and a resolvable id in its search
\* params got the 400.
C2_Witness ==
  \E r \in Reqs :
    /\ StrictGiven /\ InSearch(r, "query") /\ InSearch(r, "queryId")
    /\ ConfiguredKey = "queryId"
    /\ QueryMapGiven.t = "object" /\ "greet" \in DOMAIN QueryMapGiven.m
    /\ QueryMapGiven.m["greet"].t = "string"
    /\ \E i \in 1..Len(SearchOf(r)) : SearchOf(r)[i] = <<"queryId", "greet">>
    /\ RespondedWith(r, 400,
         "Search params have \"query\" but only persisted queries are allowed.")

FirstInSearch(r, key) ==
  LET sp == SearchOf(r)
      i == CHOOSE i \in 1..Len(sp) : sp[i][1] = key /\ \A j \in 1..Len(sp) : sp[j][1] = key => i <= j
  IN sp[i][2]

NotFoundMessage(id) ==
  "The provided query ID \"" \o id \o "\" did not match any persisted query."

FailureMessage(e) == IF e.t = "error" THEN e.message ELSE e.v
HasOwnStatus(e) == e.t = "error" /\ (e.status # 0 \/ e.statusCode # 0)

C10_InternalFailuresAre500 ==
  \A r \in Reqs :
    /\ (Done(r) /\ parsedOptions.st = "rejected") =>
         RespondedWith(r, 500, FailureMessage(parsedOptions.val))
    /\ (Done(r) /\ LookedUp(r) /\ LookupValue(r).failed) =>
         RespondedWith(r, 500, FailureMessage(LookupValue(r).val))

\* C11: for every request the middleware does at most one of two things, at
\* most once, and exactly one once it is through: it calls next() and writes
\* nothing to the response, or it writes an error response and never calls
\* next(); this also when the continuation fails after it was called.
C11_ContinueXorRespond ==
  \A r \in Reqs :
    /\ nextCalls[r] <= 1
    /\ ~(nextCalls[r] = 1 /\ res[r].sent)
    /\ Done(r) => (nextCalls[r] = 1 \/ res[r].sent)

\* C12: every response the middleware writes has status 400, 413, 415 or 500
\* (never a 2xx), whatever failed: also when the queryMap callback throws, or
\* the options promise rejects with, an error that carries a status or
\* statusCode of its own.
C12_ErrorStatusSet ==
  \A r \in Reqs :
    res[r].sent =>
      res[r].statusCode \in {HTTP_STATUS_BAD_REQUEST, HTTP_STATUS_PAYLOAD_TOO_LARGE,
                             HTTP_STATUS_UNSUPPORTED_MEDIA_TYPE,
                             HTTP_STATUS_INTERNAL_SERVER_ERROR}

\* What option parsing fails with for the options the server gave: the
\* rejection of the options promise, a settled value that is not an object,
\* the rejection of the queryMap promise, a queryMap that is neither an object
\* nor a function; "" when the options are valid.
ConfigFailureMessage ==
  LET qm == Get(OptionsGiven, "queryMap")
  IN IF options.t = "promise" /\ options.st = "rejected" THEN FailureMessage(options.val)
     ELSE IF OptionsGiven.t \notin {"object", "promise", "error"}
     THEN "The options passed to persistedQueries must be an object or a promise that resolves with an object."
     ELSE IF qm.t = "promise" /\ qm.st = "rejected" THEN FailureMessage(qm.val)
     ELSE IF QueryMapGiven.t \notin {"object", "function", "promise", "error"}
     THEN "options.queryMap must be an object, a function, or a promise that resolves with an object or function."
     ELSE ""
ConfigFails == ConfigFailureMessage # ""

\* C13: once option parsing has failed, the failure stays: every request the
\* instance handles, whatever it holds and however many there are, is answered
\* 500 with the configuration error's message and is never delegated.
C13_ConfigFailureReplayed ==
  /\ (ConfigFails /\ optStage = "done") =>
       /\ parsedOptions.st = "rejected"
       /\ FailureMessage(parsedOptions.val) = ConfigFailureMessage
  /\ \A r \in Reqs :
       (ConfigFails /\ Done(r)) => RespondedWith(r, 500, ConfigFailureMessage)

\* C14: parseOptions is called once per instance, when persistedQueries
\* constructs it and before any request is handled; however many requests
\* arrive, before or after the configuration settles, they await that one
\* result, and a configuration failure is passed to console.error once.
C14_ParsedOnceReportedOnce ==
  /\ parseCalls = (IF main = "constructed" THEN 1 ELSE 0)
  /\ (\E r \in Reqs : pc[r] # "idle") => parseCalls = 1
  /\ IF parsedOptions.st = "rejected"
     THEN consoleErrors = <<parsedOptions.val>>
     ELSE consoleErrors = <<>>
  /\ \A r \in Reqs :
       (pc[r] \notin {"idle", "awaitOptions"}) =>
         /\ parsedOptions.st # "pending"
         /\ (parsedOptions.st = "rejected") =>
              pc[r] = "failed" /\ res[r].payload.errors[1].message = ConfigFailureMessage

\* C14 witness: every request slot was served, each answered with the same
\* configuration failure, which was reported once.
C14_Witness ==
  /\ parseCalls = 1
  /\ Len(consoleErrors) = 1
  /\ \A r \in Reqs :
       pc[r] = "failed" /\ res[r].payload.errors[1].message = consoleErrors[1].message

\* What the two validations of parseOptions fail with
ValidationMessages ==
  { "The options passed to persistedQueries must be an object or a promise that resolves with an object.",
    "options.queryMap must be an object, a function, or a promise that resolves with an object or function." }

C15_SurfacesPerRequest ==
  \E r \in Reqs :
    /\ options = Resolved(Null) /\ main = "constructed"
    /\ RespondedWith(r, 500,
         "The options passed to persistedQueries must be an object or a promise that resolves with an object.")

\* parseRequestBodyIfNecessary has run for request r
BodyStepDone(r) == Configured /\ pc[r] \notin {"idle", "awaitOptions", "parseBody"}
\* The single message of the response to r
MessageOf(r) == res[r].payload.errors[1].message
\* The response to r reports a failure of body materialization
BodyFailure(r) ==
  /\ res[r].sent
  /\ \/ res[r].statusCode \in {413, 415}
     \/ MessageOf(r) \in {"Request body is not a valid JSON object.",
                           "Request body too large.",
                           "Invalid request body: incorrect header check.",
                           "invalid media type"}

\* C16: when req.body is already non-null, body materialization does nothing:
\* the request stream is not read or piped, req.body is the value it was, and
\* the request gets no charset, Content-Encoding, size, JSON or Content-Type
\* failure, whatever its headers and payload; materializing once more changes
\* nothing either.
C16_PreParsedBodyIsKept ==
  \A r \in Reqs :
    (BodyStepDone(r) /\ req[r].body.t \notin {"undefined", "null"}) =>
      /\ stream[r] = [read |-> 0, transform |-> "", buffered |-> 0]
      /\ ~BodyFailure(r)
      /\ (pc[r] \in {"resolve", "awaitQueryMap"}) => body[r] = req[r].body
      /\ parseRequestBodyIfNecessary(req[r], body[r]) =
           [ok |-> TRUE, val |-> body[r], stream |-> [read |-> 0, transform |-> "", buffered |-> 0]]

\* C16 witness: a request with a body set upstream, a JSON Content-Type, an
\* unsupported charset and Content-Encoding and an oversized payload went
\* through materialization to the resolver.
C16_Witness ==
  \E r \in Reqs :
    /\ req[r].body.t = "string"
    /\ req[r].contentType = "application/json"
    /\ req[r].charset = "latin1" /\ req[r].contentEncoding = "br"
    /\ ByteLength(req[r].payload) > 100 * 1024
    /\ pc[r] = "delegated" /\ stream[r].read = 0

\* C17: for a request without req.body and without a Content-Type header, or
\* with a Content-Type other than application/json and
\* application/x-www-form-urlencoded, body materialization leaves req.body
\* unset, reads no byte of the request stream and pipes it nowhere, and fails
\* with nothing, also when the declared charset or Content-Encoding is
\* unsupported or the payload is over the size ceiling.
C17_OtherTypesLeftAlone ==
  \A r \in Reqs :
    (BodyStepDone(r) /\ req[r].body.t \in {"undefined", "null"}
       /\ req[r].contentType \notin {"application/json", "application/x-www-form-urlencoded",
                                      "invalid"}) =>
      /\ stream[r] = [read |-> 0, transform |-> "", buffered |-> 0]
      /\ ~BodyFailure(r)
      /\ (pc[r] \in {"resolve", "awaitQueryMap"}) => body[r] = req[r].body
      /\ lookups[r] = <<>> => body[r] = req[r].body

\* C17 witness: a text/plain request with an unsupported charset, an
\* unsupported Content-Encoding and an oversized payload was delegated with
\* its stream unread.
C17_Witness ==
  \E r \in Reqs :
    /\ req[r].contentType = "text/plain"
    /\ req[r].charset = "utf-18" /\ req[r].contentEncoding = "br"
    /\ ByteLength(req[r].payload) > 100 * 1024
    /\ body[r] = Null
    /\ pc[r] = "delegated" /\ stream[r].read = 0

\* The Content-Encoding / charset r declares, in lower case; the defaults
\* when it declares none
EncodingOf(r) == IF req[r].contentEncoding = "" THEN "identity" ELSE ToLowerCase(req[r].contentEncoding)
CharsetOf(r) == IF req[r].charset = "" THEN "utf-8" ELSE ToLowerCase(req[r].charset)
\* r has no body yet and declares a JSON or form body
ToBeParsed(r) ==
  /\ req[r].body.t \in {"undefined", "null"}
  /\ req[r].contentType \in {"application/json", "application/x-www-form-urlencoded"}

\* C18 as stated: when the body of a request is read and the request declares
\* a Content-Encoding token other than identity, gzip and deflate, it is
\* answered 415 'Unsupported Content-Encoding: "<token>".' with the token as
\* declared.
C18_UnknownEncodingAlways415 ==
  \A r \in Reqs :
    (BodyStepDone(r) /\ ToBeParsed(r)
       /\ CharsetOf(r) \in {"utf-8", "utf8", "utf16le"}
       /\ req[r].contentEncoding \notin {"", "identity", "gzip", "deflate"}) =>
      RespondedWith(r, 415,
        "Unsupported Content-Encoding: \"" \o req[r].contentEncoding \o "\".")

\* C18 as amended: when the body of a request is read (no body set upstream,
\* Content-Type JSON or form, configuration resolved, charset supported) and
\* the Content-Encoding it declares is, in lower case, none of identity, gzip
\* and deflate, the request is answered 415 'Unsupported Content-Encoding:
\* "<token>".' with the token in lower case, whatever the payload holds.
C18_UnknownEncodingIs415 ==
  \A r \in Reqs :
    (BodyStepDone(r) /\ ToBeParsed(r)
       /\ CharsetOf(r) \in {"utf-8", "utf8", "utf16le"}
       /\ EncodingOf(r) \notin {"identity", "gzip", "deflate"}) =>
      RespondedWith(r, 415, "Unsupported Content-Encoding: \"" \o EncodingOf(r) \o "\".")

\* C18 witness: a JSON request with a valid object body and Content-Encoding
\* BR was answered 415 naming "br".
C18_Witness ==
  \E r \in Reqs :
    /\ req[r].contentType = "application/json" /\ req[r].contentEncoding = "BR"
    /\ req[r].payload.text.k = "object"
    /\ RespondedWith(r, 415, "Unsupported Content-Encoding: \"br\".")

C19_MixedCaseAccepted ==
  \E r \in Reqs :
    /\ req[r].charset = "Utf16LE" /\ req[r].body = Undefined
    /\ Delegated(r) /\ body[r].t = "object" /\ stream[r].read > 0

\* C20: a request that ends in a 415 failure had no byte of its stream read,
\* no decompression transform attached and nothing buffered, and its
\* req.body stays unset; when both the charset and the Content-Encoding are
\* unsupported, the response reports the charset.
C20_ChecksBeforeReading ==
  \A r \in Reqs :
    /\ (res[r].sent /\ res[r].statusCode = 415) =>
         /\ stream[r] = [read |-> 0, transform |-> "", buffered |-> 0]
         /\ body[r] = req[r].body /\ body[r].t \in {"undefined", "null"}
         /\ lookups[r] = <<>> /\ nextCalls[r] = 0
    /\ (BodyStepDone(r) /\ ToBeParsed(r)
          /\ CharsetOf(r) \notin {"utf-8", "utf8", "utf16le"}
          /\ EncodingOf(r) \notin {"identity", "gzip", "deflate"}) =>
         RespondedWith(r, 415, "Unsupported charset \"" \o ToUpperCase(CharsetOf(r)) \o "\".")

\* C20 witness: a request with a payload, an unsupported charset and an
\* unsupported Content-Encoding was answered with the charset failure, its
\* stream untouched.
C20_Witness ==
  \E r \in Reqs :
    /\ req[r].charset = "Latin1" /\ req[r].contentEncoding = "br"
    /\ ByteLength(req[r].payload) > 0
    /\ res[r].sent /\ res[r].statusCode = 415
    /\ MessageOf(r) = "Unsupported charset \"LATIN1\"."
    /\ stream[r].read = 0 /\ stream[r].transform = ""

\* C20, second witness state: the Content-Encoding failure alone, stream
\* untouched.
C20_EncodingFailureUnread ==
  \E r \in Reqs :
    /\ req[r].contentEncoding = "BR" /\ ByteLength(req[r].payload) > 0
    /\ res[r].sent /\ res[r].statusCode = 415 /\ stream[r].read = 0

\* r's body was read: r had no body yet, declares a JSON or form body with a
\* supported charset and Content-Encoding, and its stream did not fail
BodyRead(r) ==
  /\ BodyStepDone(r) /\ ToBeParsed(r)
  /\ CharsetOf(r) \in {"utf-8", "utf8", "utf16le"}
  /\ EncodingOf(r) \in {"identity", "gzip", "deflate"}
  /\ req[r].payload.streamError = ""

\* C21: the size ceiling is enforced on the decoded bytes, not on the
\* characters of the decoded text: a JSON or form body of at most 100 KiB of
\* decoded bytes is accepted, and one of more bytes is answered with 413
\* 'Request body too large.', whatever its number of characters.
C21_CeilingCountsBytes ==
  \A r \in Reqs :
    BodyRead(r) =>
      IF ByteLength(req[r].payload) <= 100 * 1024
      THEN ~BodyFailure(r)
      ELSE RespondedWith(r, 413, "Request body too large.")

\* C22: once the decoded bytes of a body cross the ceiling, nothing more is
\* read from the request or buffered: a request answered 413 has read and
\* buffered no chunk after the one that crossed the ceiling, whatever the
\* client goes on sending, it is answered 413 'Request body too large.', and
\* its req.body is left unset.
C22_AbortedAtCrossing ==
  \A r \in Reqs :
    (res[r].sent /\ res[r].statusCode = 413) =>
      /\ RespondedWith(r, 413, "Request body too large.")
      /\ body[r] = req[r].body /\ body[r].t \in {"undefined", "null"}
      /\ \E i \in 1..Len(req[r].payload.chunks) :
           /\ Total(req[r].payload.chunks, i - 1, "bytes") <= 100 * 1024
           /\ stream[r].read = Total(req[r].payload.chunks, i, "bytes")
           /\ stream[r].buffered = stream[r].read

\* C23: a body read as application/json whose text does not start with `{`
\* behind spaces, tabs and line ends (an array, a scalar, a form, nothing), or
\* starts so and is no JSON (cut short, malformed), is answered 400 'Request
\* body is not a valid JSON object.' and nothing else: req.body stays unset,
\* the query map is not consulted and the continuation is not called, also
\* when the search params hold a valid query id.
C23_NotAJsonObjectIs400 ==
  \A r \in Reqs :
    (BodyRead(r) /\ req[r].contentType = "application/json"
       /\ ByteLength(req[r].payload) <= 100 * 1024
       /\ req[r].payload.text.k \notin {"object", "padded"}) =>
      /\ RespondedWith(r, 400, "Request body is not a valid JSON object.")
      /\ body[r] = req[r].body
      /\ lookups[r] = <<>>

\* C23 witness: a body cut short, sent with ?queryId=greet to a server whose
\* table holds greet, was answered 400.
C23_Witness ==
  \E r \in Reqs :
    /\ req[r].contentType = "application/json"
    /\ req[r].payload.text.k = "truncated"
    /\ InSearch(r, "queryId") /\ SearchOf(r)[1][2] = "greet"
    /\ Configured /\ "greet" \in DOMAIN QueryMapGiven.m
    /\ res[r].sent /\ res[r].statusCode = 400
    /\ body[r] = Undefined

\* C23, second witness state: a body that is a JSON array was answered 400.
C23_ArrayRejected ==
  \E r \in Reqs :
    /\ req[r].contentType = "application/json"
    /\ req[r].payload.text.k = "array"
    /\ res[r].sent /\ res[r].statusCode = 400

\* C24: a JSON object encoded in a supported charset (utf-8, utf8, utf16le),
\* compressed in a supported Content-Encoding (identity, gzip, deflate) and
\* sent within the size ceiling is materialized as a req.body equal to the
\* original mapping: reading it never fails, and the entries parsed are the
\* entries sent.
C24_RoundTrip ==
  /\ trip.stage # "failed"
  /\ trip.stage = "body" => trip.data = trip.mapping

\* C24 witness: a mapping whose value holds a surrogate pair, sent as utf16le
\* and gzipped, has become req.body.
C24_Witness ==
  /\ trip.stage = "body"
  /\ trip.charset = "utf16le" /\ trip.encoding = "gzip"
  /\ Len(trip.mapping) = 1
  /\ trip.mapping[1][2] = <<55357, 56832, 97>>
  /\ trip.data = trip.mapping

\* C24, second witness state: a value with a quote in it, sent as utf-8 and
\* deflated, has become req.body.
C24_EscapedQuoteDeflated ==
  /\ trip.stage = "body"
  /\ trip.charset = "utf-8" /\ trip.encoding = "deflate"
  /\ Len(trip.mapping) = 2
  /\ trip.mapping[1][2] = <<34>>

\* C25: every error response has Content-Type 'application/json;
\* charset=utf-8' and a payload of exactly the shape {"errors":[{"message":
\* <text>}]}, one entry with nothing but its message; and the Content-Length
\* sendJson sets is the number of bytes it writes, which are the UTF-8
\* encoding of the JSON text of the payload.
C25_ErrorEnvelope ==
  /\ \A r \in Reqs :
       res[r].sent =>
         /\ res[r].contentType = "application/json; charset=utf-8"
         /\ DOMAIN res[r].payload = {"errors"}
         /\ Len(res[r].payload.errors) = 1
         /\ DOMAIN res[r].payload.errors[1] = {"message"}
  /\ trip.stage = "response" =>
       /\ trip.data.contentType = "application/json; charset=utf-8"
       /\ trip.data.contentLength = Len(trip.data.end)
       /\ Utf8Decode(trip.data.end) = ErrorsJson(trip.message)

\* C26: the steps of a request run in the order configuration, body
\* materialization, query resolution, injection, continuation: no byte of a
\* request's stream is read before the configuration has resolved; when the
\* configuration has failed, a finished request was answered 500 with the
\* configuration error, its body unread, whatever its body would have failed
\* with; and a request whose body cannot be materialized is answered with the
\* body failure, the resolver never run.
C26_FixedOrder ==
  \A r \in Reqs :
    /\ stream[r] # Untouched => parsedOptions.st = "fulfilled"
    /\ (Done(r) /\ parsedOptions.st = "rejected") =>
         /\ RespondedWith(r, 500, FailureMessage(parsedOptions.val))
         /\ stream[r] = Untouched
         /\ body[r] = req[r].body
         /\ lookups[r] = <<>>
    /\ (lookups[r] # <<>> \/ nextCalls[r] > 0) => parsedOptions.st = "fulfilled"
    /\ (Done(r) /\ Configured /\ ~Materialized(r).ok
          /\ ~bodyParserMiddleware(req[r], req[r].body, DEFAULT_MAX_SIZE).ok) =>
         BodyFailure(r) /\ lookups[r] = <<>> /\ nextCalls[r] = 0

\* C27: requests are independent under any interleaving: two requests of one
\* instance with the same target, headers, stream and body end in the same
\* way (continuation or response, status, message, final req.body, the same
\* query map consultations), whatever was in flight or finished meanwhile; and
\* once the memoized configuration has settled no step changes it.
C27_RequestsIndependent ==
  /\ [](\A r1, r2 \in Reqs :
          (Done(r1) /\ Done(r2) /\ req[r1] = req[r2]) =>
            /\ pc[r1] = pc[r2]
            /\ res[r1] = res[r2]
            /\ body[r1] = body[r2]
            /\ nextCalls[r1] = nextCalls[r2]
            /\ lookups[r1] = lookups[r2])
  /\ [][parsedOptions.st # "pending" => parsedOptions' = parsedOptions]_vars

\* C27 witness: two requests with the same JSON body were both delegated with
\* the same injected query.
C27_Witness ==
  \E r1, r2 \in Reqs :
    /\ r1 # r2 /\ req[r1] = req[r2]
    /\ req[r1].contentType = "application/json"
    /\ Delegated(r1) /\ Delegated(r2)
    /\ body[r1].t = "object" /\ "query" \in DOMAIN body[r1].m
    /\ body[r1] = body[r2]

\* The middleware populated req.body of r itself, from a JSON or form body
PopulatedByCore(r) == ToBeParsed(r) /\ Materialized(r).ok /\ body[r].t = "object"

C29_GuardFailedUnconsulted ==
  \E r \in Reqs :
    /\ StrictGiven /\ InBody(r, "query") /\ InSearch(r, ConfiguredKey)
    /\ pc[r] = "failed" /\ lookups[r] = <<>>

\* The configuration promise settles: neither the options nor their queryMap
\* is a promise that stays pending
ConfigSettles ==
  /\ Settled(options)
  /\ OptionsGiven.t = "object" /\ "queryMap" \in DOMAIN OptionsGiven.m =>
       Settled(Get(OptionsGiven, "queryMap"))

C30_WaitsForever ==
  \E r \in Reqs :
    /\ options = Forever
    /\ pc[r] = "awaitOptions"
    /\ req[r].contentType = "application/json"
    /\ stream[r] = Untouched
====
